---------------------------- MODULE Spec2Model ----------------------------
(***************************************************************************)
(* A model of the typed-scad geometry kernel: tolerant scalar equality,   *)
(* vector algebra, line/plane intersection, the Location frame and its    *)
(* builder, and the cube tessellation.                                    *)
(*                                                                         *)
(* Numbers.  Except in the IEEE-754 section, an f64 is modelled by an     *)
(* exact rational <<n, d>> (d > 0, lowest terms); the rounding of f64     *)
(* arithmetic is not modelled there.  The tolerance 1e-10 of rough_fp.rs  *)
(* is then the rational 1/EpsDen.  The IEEE-754 section models the f64    *)
(* sums o + 1e-10 and o - 1e-10 of rough_partial_eq with their rounding.  *)
(***************************************************************************)
EXTENDS Integers, Sequences, FiniteSets, TLC

VARIABLES
    fp,     \* the last tolerant comparison of two f64 values
    vec,    \* the last Vector operation: its operands and its result
    geo,    \* the last Line/Plane operation: its operands and its result
    lb,     \* the LocationBuilder / Location under construction and transformation
    cube,   \* the last Cube tessellation: location, size and facets
    ring,   \* the last Cylinder/Cone tessellation or angle iteration
    sph,    \* the last Sphere tessellation: the octant and the whole mesh
    be,     \* the build environments: ENV_MAP of each thread and the env scopes
    bc,     \* the parents under construction by BuildContext::build and the mesh generated
    stl,    \* the run of write_stl: the mesh, the output and the bytes delivered
    it,     \* the Size / Angle iterator in use: its range, its fields and the calls made
    rep     \* the replication step of the sphere: the facet vector, its slices and the tasks run

vars == <<fp, vec, geo, lb, cube, ring, sph, be, bc, stl, it, rep>>

-----------------------------------------------------------------------------
(* Bounds of the model *)

\* denominator of the tolerance in the exact-rational sections: eps = 1/EpsDen
EpsDen == 16
\* the f64 binades [2^E, 2^(E+1)) whose values are compared
MinBinade == 18
MaxBinade == 21
\* f64 operands are 1.5 * 2^E + n ulps with |n| <= MaxOffset
MaxOffset == 3

-----------------------------------------------------------------------------
(* Exact rationals *)

RECURSIVE GCD(_, _)
GCD(a, b) == IF b = 0 THEN a ELSE GCD(b, a % b)

Abs(n) == IF n < 0 THEN -n ELSE n

\* the rational n/d in lowest terms with a positive denominator
Q(n, d) ==
    LET g == GCD(Abs(n), Abs(d))
        s == IF d < 0 THEN -1 ELSE 1
    IN  <<s * (n \div g), s * (d \div g)>>

I(n) == <<n, 1>>

QAdd(a, b) ==
    LET g == GCD(a[2], b[2])
        fa == b[2] \div g
        fb == a[2] \div g
    IN  Q(a[1] * fa + b[1] * fb, a[2] * fa)

QNeg(a) == <<-a[1], a[2]>>

QSub(a, b) == QAdd(a, QNeg(b))

QMul(a, b) ==
    LET g1 == GCD(Abs(a[1]), b[2])
        g2 == GCD(Abs(b[1]), a[2])
    IN  <<(a[1] \div g1) * (b[1] \div g2), (a[2] \div g2) * (b[2] \div g1)>>

\* b is not zero
QDiv(a, b) == QMul(a, Q(b[2], b[1]))

QLt(a, b) ==
    LET g == GCD(a[2], b[2])
    IN  a[1] * (b[2] \div g) < b[1] * (a[2] \div g)

\* the least r in lo..hi with r * r >= n, by bisection
RECURSIVE ISqrtIn(_, _, _)
ISqrtIn(n, lo, hi) ==
    IF lo >= hi THEN lo
    ELSE LET mid == (lo + hi) \div 2
         IN  IF mid * mid >= n THEN ISqrtIn(n, lo, mid)
             ELSE ISqrtIn(n, mid + 1, hi)

\* 46340 is the largest root whose square is a 32-bit integer
ISqrt(n) == ISqrtIn(n, 0, 46340)

IsSquare(n) == LET r == ISqrt(n) IN r * r = n

\* a is the square of a rational
QIsSquare(a) == a[1] >= 0 /\ IsSquare(a[1]) /\ IsSquare(a[2])

\* f64::sqrt on the squares of rationals, where it is exact
QSqrt(a) == <<ISqrt(a[1]), ISqrt(a[2])>>

-----------------------------------------------------------------------------
(* Tolerant equality, exact arithmetic *)

FLOAT_POINT_ALLOWABLE_ERROR == <<1, EpsDen>>

rough_partial_eq(s, o) ==
    /\ QLt(QSub(o, FLOAT_POINT_ALLOWABLE_ERROR), s)
    /\ QLt(s, QAdd(o, FLOAT_POINT_ALLOWABLE_ERROR))

-----------------------------------------------------------------------------
(* Tolerant equality, IEEE-754 binary64 arithmetic.                        *)
(* An operand of binade E is the f64 1.5 * 2^E + n * ulp with              *)
(* ulp = 2^(E - 52) and |n| small, written as the offset n.  Such a value  *)
(* is a multiple of ulp, so round-to-nearest gives                         *)
(* fl(o + x) = o + round(x / ulp) * ulp while the sum stays in the binade. *)
(* x / ulp for x = 1e-10 * 2^k is 2^(42 - E + k) / 5^10.                   *)

\* 5^10: 1e-10 = 1 / (2^10 * 5^10)
FivePow10 == 9765625
\* 52 fraction bits of an f64, less the 10 twos of 1e-10
EpsShift == 42

\* round(1e-10 * 2^k / ulp(E)), to nearest (no tie: 5^10 is odd)
F64EpsUlps(E, k) ==
    LET N == 2 ^ (EpsShift - E + k)
        q == N \div FivePow10
        r == N % FivePow10
    IN  IF 2 * r > FivePow10 THEN q + 1 ELSE q

\* fl(o + 1e-10 * 2^k) and fl(o - 1e-10 * 2^k), as offsets
F64AddEps(E, o, k) == o + F64EpsUlps(E, k)
F64SubEps(E, o, k) == o - F64EpsUlps(E, k)

\* rough_partial_eq on the f64 values with offsets s and o in binade E
f64_rough_partial_eq(E, s, o) ==
    /\ s > F64SubEps(E, o, 0)
    /\ s < F64AddEps(E, o, 0)

Binades == MinBinade..MaxBinade
Offsets == (-MaxOffset)..MaxOffset

FpIdle == [op |-> "none", E |-> 0, s |-> 0, o |-> 0, done |-> TRUE, res |-> FALSE]

\* the comparisons to make: operands drawn from the binades
FpInputs ==
    {[op |-> "eq", E |-> E, s |-> s, o |-> o, done |-> FALSE, res |-> FALSE] :
        E \in Binades, s \in Offsets, o \in Offsets}
    \cup
    {[op |-> op, E |-> E, s |-> o, o |-> o, done |-> FALSE, res |-> FALSE] :
        op \in {"half", "two"}, E \in Binades, o \in Offsets}

\* Size::eq / Angle::eq on two values of one binade
EqCompare ==
    /\ fp.op = "eq" /\ ~fp.done
    /\ fp' = [fp EXCEPT !.done = TRUE,
                        !.res = f64_rough_partial_eq(fp.E, fp.s, fp.o)]
    /\ UNCHANGED <<vec, geo, lb, cube, ring, sph, be, bc, stl, it, rep>>

\* Size::from(a + 1e-10 / 2) == Size::from(a)
EqPlusHalfEps ==
    /\ fp.op = "half" /\ ~fp.done
    /\ LET s == F64AddEps(fp.E, fp.o, -1)
       IN  fp' = [fp EXCEPT !.done = TRUE, !.s = s,
                            !.res = f64_rough_partial_eq(fp.E, s, fp.o)]
    /\ UNCHANGED <<vec, geo, lb, cube, ring, sph, be, bc, stl, it, rep>>

\* Size::from(a + 2 * 1e-10) == Size::from(a)
EqPlusTwoEps ==
    /\ fp.op = "two" /\ ~fp.done
    /\ LET s == F64AddEps(fp.E, fp.o, 1)
       IN  fp' = [fp EXCEPT !.done = TRUE, !.s = s,
                            !.res = f64_rough_partial_eq(fp.E, s, fp.o)]
    /\ UNCHANGED <<vec, geo, lb, cube, ring, sph, be, bc, stl, it, rep>>

-----------------------------------------------------------------------------
(* Size, Angle, Vector and Point *)

\* more bounds: coordinates of operand vectors and of rotation axes
VMax == 1
AxisMax == 2

Size_ZERO == I(0)

\* impl PartialEq for Size
Size_eq(a, b) == rough_partial_eq(a, b)

\* An Angle is <<q, p>>: q quarter turns plus p times atan(3/4), the angles
\* whose sine and cosine are rational.
deg90 == <<1, 0>>

\* <<cos, sin>> of p * atan(3/4): the p-th power of (4 + 3i) / 5
RECURSIVE cis_atan34(_)
cis_atan34(p) ==
    IF p = 0 THEN <<I(1), I(0)>>
    ELSE IF p < 0
    THEN LET c == cis_atan34(-p) IN <<c[1], QNeg(c[2])>>
    ELSE LET c == cis_atan34(p - 1)
         IN  <<QSub(QMul(c[1], Q(4, 5)), QMul(c[2], Q(3, 5))),
               QAdd(QMul(c[2], Q(4, 5)), QMul(c[1], Q(3, 5)))>>

cos(angle) ==
    LET c0 == cis_atan34(angle[2])[1]
        s0 == cis_atan34(angle[2])[2]
        q == angle[1] % 4
    IN  CASE q = 0 -> c0
          [] q = 1 -> QNeg(s0)
          [] q = 2 -> QNeg(c0)
          [] q = 3 -> s0

sin(angle) ==
    LET c0 == cis_atan34(angle[2])[1]
        s0 == cis_atan34(angle[2])[2]
        q == angle[1] % 4
    IN  CASE q = 0 -> s0
          [] q = 1 -> c0
          [] q = 2 -> QNeg(s0)
          [] q = 3 -> QNeg(c0)

Vector_new(x, y, z) == <<x, y, z>>
Vector_ZERO == Vector_new(Size_ZERO, Size_ZERO, Size_ZERO)
X_UNIT_VECTOR == Vector_new(I(1), Size_ZERO, Size_ZERO)
Y_UNIT_VECTOR == Vector_new(Size_ZERO, I(1), Size_ZERO)
Z_UNIT_VECTOR == Vector_new(Size_ZERO, Size_ZERO, I(1))
Point_ORIGIN == <<Size_ZERO, Size_ZERO, Size_ZERO>>

\* Matrix: entrywise sum, difference, product and quotient by a scalar
Matrix_add(a, b) == [i \in 1..3 |-> QAdd(a[i], b[i])]
Matrix_sub(a, b) == [i \in 1..3 |-> QSub(a[i], b[i])]
Matrix_mul(a, k) == [i \in 1..3 |-> QMul(a[i], k)]
Matrix_div(a, k) == [i \in 1..3 |-> QDiv(a[i], k)]
\* derived PartialEq of Matrix over Size::eq
Matrix_eq(a, b) == \A i \in 1..3 : Size_eq(a[i], b[i])

Vector_neg(v) == [i \in 1..3 |-> QNeg(v[i])]

between(point_a, point_b) == Matrix_sub(point_b, point_a)

inner_product(self, other) ==
    QAdd(QAdd(QMul(self[1], other[1]), QMul(self[2], other[2])),
         QMul(self[3], other[3]))

\* x*x + y*y + z*z, the operand of sqrt in norm
NormSq(self) == inner_product(self, self)

norm(self) == QSqrt(NormSq(self))

\* the vectors whose norm is rational, on which sqrt is modelled
RationalNorm(v) == QIsSquare(NormSq(v))

Ok(x) == [panic |-> FALSE, val |-> x]
Panic == [panic |-> TRUE, val |-> Vector_ZERO]

to_unit_vector_nodiv(self) ==
    IF Size_eq(norm(self), Size_ZERO) THEN Panic ELSE Ok(self)

to_unit_vector(self) ==
    IF Size_eq(norm(self), Size_ZERO)
    THEN Panic
    ELSE Ok(Matrix_div(self, norm(self)))

vector_product(self, other) ==
    Vector_new(
        QSub(QMul(self[2], other[3]), QMul(self[3], other[2])),
        QSub(QMul(self[3], other[1]), QMul(self[1], other[3])),
        QSub(QMul(self[1], other[2]), QMul(self[2], other[1])))

Vector_rotated_lefthanded(self, axis, angle) ==
    LET u == to_unit_vector(axis)
    IN  IF u.panic THEN Panic
        ELSE LET axis_vector ==
                     Matrix_mul(axis, QDiv(inner_product(self, u.val), norm(axis)))
             IN  Ok(Matrix_add(
                      Matrix_add(Matrix_mul(self, cos(angle)),
                                 Matrix_mul(axis_vector, QSub(I(1), cos(angle)))),
                      Matrix_mul(vector_product(self, u.val), sin(angle))))

Vector_rotated(self, axis, angle) ==
    LET axis_unit_vector == to_unit_vector(axis)
    IN  IF axis_unit_vector.panic THEN Panic
        ELSE LET inner == inner_product(self, axis_unit_vector.val)
                 axis_vector == Matrix_mul(axis, QDiv(inner, norm(axis)))
             IN  Ok(Matrix_add(
                      Matrix_add(Matrix_mul(self, cos(angle)),
                                 Matrix_mul(axis_vector, QSub(I(1), cos(angle)))),
                      Matrix_mul(vector_product(axis_unit_vector.val, self),
                                 sin(angle))))

\* operand sets
IntVecs(m) == {<<I(x), I(y), I(z)>> : x \in (-m)..m, y \in (-m)..m, z \in (-m)..m}

\* vectors along one axis whose length is eps/2, eps or 2 eps
TinyVecs ==
    LET lens == {Q(k, 2 * EpsDen) : k \in {-4, -2, -1, 1, 2, 4}}
    IN  UNION {{<<l, I(0), I(0)>>, <<I(0), l, I(0)>>, <<I(0), I(0), l>>} : l \in lens}

AxisInputs == {v \in IntVecs(AxisMax) \cup TinyVecs : RationalNorm(v)}

AngleInputs == {<<q, p>> : q \in 0..3, p \in 0..1}

VecIdle == [op |-> "none", v |-> Vector_ZERO, axis |-> Vector_ZERO,
            angle |-> <<0, 0>>, done |-> TRUE, out |-> Panic]

\* the calls to make
VecInputs ==
    {[op |-> "to_unit_vector", v |-> v, axis |-> Vector_ZERO, angle |-> <<0, 0>>,
      done |-> FALSE, out |-> Panic] : v \in AxisInputs}
    \cup
    {[op |-> "rotated", v |-> v, axis |-> axis, angle |-> angle,
      done |-> FALSE, out |-> Panic] :
        v \in IntVecs(VMax), axis \in AxisInputs, angle \in AngleInputs}

\* Vector::to_unit_vector
ToUnitVector ==
    /\ vec.op = "to_unit_vector" /\ ~vec.done
    /\ vec' = [vec EXCEPT !.done = TRUE, !.out = to_unit_vector(vec.v)]
    /\ UNCHANGED <<fp, geo, lb, cube, ring, sph, be, bc, stl, it, rep>>

\* Vector::rotated
Rotated ==
    /\ vec.op = "rotated" /\ ~vec.done
    /\ vec' = [vec EXCEPT !.done = TRUE,
                          !.out = Vector_rotated(vec.v, vec.axis, vec.angle)]
    /\ UNCHANGED <<fp, geo, lb, cube, ring, sph, be, bc, stl, it, rep>>

-----------------------------------------------------------------------------
(* Line and Plane *)

\* coordinates of the directions and normals of operand lines and planes
GeoMax == 1

Line_new(point, vector) == [point |-> point, vector |-> vector]
Plane_new(point, normal_vector) == [point |-> point, normal_vector |-> normal_vector]

X_AXIS == Line_new(Point_ORIGIN, X_UNIT_VECTOR)
Y_AXIS == Line_new(Point_ORIGIN, Y_UNIT_VECTOR)
Plane_XY == Plane_new(Point_ORIGIN, Z_UNIT_VECTOR)
Plane_YZ == Plane_new(Point_ORIGIN, X_UNIT_VECTOR)

\* a * b * c
M3(a, b, c) == QMul(QMul(a, b), c)
\* t1 - t2 + t3 - t4 + t5 - t6
Alt6(t1, t2, t3, t4, t5, t6) ==
    QSub(QAdd(QSub(QAdd(QSub(t1, t2), t3), t4), t5), t6)

\* the three numerators of Plane.intersection(Plane), as written in the source
PlanePlaneNumA(p1, v1, p2, v2) ==
    Alt6(M3(v1[1], v2[3], p1[1]), M3(v1[3], v2[1], p2[1]),
         M3(v1[2], v2[3], p1[2]), M3(v1[3], v2[2], p2[2]),
         M3(v1[3], v2[3], p1[3]), M3(v1[3], v2[3], p2[3]))

PlanePlaneNumB(p1, v1, p2, v2) ==
    Alt6(M3(v1[3], v2[2], p1[3]), M3(v1[2], v2[3], p2[3]),
         M3(v1[1], v2[2], p1[1]), M3(v1[2], v2[1], p2[1]),
         M3(v1[2], v2[2], p1[2]), M3(v1[2], v2[2], p2[2]))

PlanePlaneNumC(p1, v1, p2, v2) ==
    Alt6(M3(v1[2], v2[1], p1[2]), M3(v1[1], v2[2], p2[2]),
         M3(v1[3], v2[1], p1[3]), M3(v1[1], v2[3], p2[3]),
         M3(v1[1], v2[1], p1[1]), M3(v1[1], v2[1], p2[1]))

\* the point of the line with x = 0 (branch vector.x != 0)
PlanePlanePointX(p1, v1, p2, v2) ==
    LET det == QSub(QMul(v1[2], v2[3]), QMul(v1[3], v2[2]))
    IN  <<Size_ZERO,
          QDiv(PlanePlaneNumA(p1, v1, p2, v2), det),
          QDiv(PlanePlaneNumB(p1, v1, p2, v2), QNeg(det))>>

\* the point of the line with y = 0 (branch vector.y != 0)
PlanePlanePointY(p1, v1, p2, v2) ==
    LET det == QSub(QMul(v1[3], v2[1]), QMul(v1[1], v2[3]))
    IN  <<QDiv(PlanePlaneNumA(p1, v1, p2, v2), QNeg(det)),
          Size_ZERO,
          QDiv(PlanePlaneNumC(p1, v1, p2, v2), det)>>

PlanePlanePointZ_unsigned(p1, v1, p2, v2) ==
    LET det == QSub(QMul(v1[1], v2[2]), QMul(v1[2], v2[1]))
    IN  <<QDiv(PlanePlaneNumB(p1, v1, p2, v2), det),
          QDiv(PlanePlaneNumC(p1, v1, p2, v2), det),
          Size_ZERO>>

\* the point of the line with z = 0 (branch vector.z != 0)
PlanePlanePointZ(p1, v1, p2, v2) ==
    LET det == QSub(QMul(v1[1], v2[2]), QMul(v1[2], v2[1]))
    IN  <<QDiv(PlanePlaneNumB(p1, v1, p2, v2), det),
          QDiv(PlanePlaneNumC(p1, v1, p2, v2), QNeg(det)),
          Size_ZERO>>

\* impl Intersection<Plane> for Plane
Plane_intersection_Plane(self, rhs) ==
    LET p1 == self.point
        v1 == self.normal_vector
        p2 == rhs.point
        v2 == rhs.normal_vector
        vector == vector_product(self.normal_vector, rhs.normal_vector)
    IN  IF ~Size_eq(vector[1], Size_ZERO)
        THEN Ok(Line_new(PlanePlanePointX(p1, v1, p2, v2), vector))
        ELSE IF ~Size_eq(vector[2], Size_ZERO)
        THEN Ok(Line_new(PlanePlanePointY(p1, v1, p2, v2), vector))
        ELSE IF ~Size_eq(vector[3], Size_ZERO)
        THEN Ok(Line_new(PlanePlanePointZ(p1, v1, p2, v2), vector))
        ELSE Panic

Plane_intersection_Line_swapped(self, rhs) ==
    LET d == inner_product(self.normal_vector, rhs.vector)
    IN  IF rough_partial_eq(d, I(0)) THEN Panic
        ELSE LET t == QDiv(inner_product(Matrix_sub(rhs.point, self.point),
                                         self.normal_vector), d)
             IN  Ok(Matrix_add(rhs.point, Matrix_mul(rhs.vector, t)))

\* impl Intersection<Line> for Plane
Plane_intersection_Line(self, rhs) ==
    LET p1 == self.point
        v1 == self.normal_vector
        p2 == rhs.point
        v2 == rhs.vector
        inner == QAdd(QAdd(QMul(v1[1], v2[1]), QMul(v1[2], v2[2])),
                      QMul(v1[3], v2[3]))
    IN  IF rough_partial_eq(inner, I(0))
        THEN Panic
        ELSE LET t == QDiv(QAdd(QAdd(QMul(QSub(p1[1], p2[1]), v1[1]),
                                     QMul(QSub(p1[2], p2[2]), v1[2])),
                                QMul(QSub(p1[3], p2[3]), v1[3])),
                           inner)
             IN  Ok(<<QAdd(p2[1], QMul(t, v2[1])),
                      QAdd(p2[2], QMul(t, v2[2])),
                      QAdd(p2[3], QMul(t, v2[3]))>>)

\* Line::point: the point of the line nearest the origin
Line_point(self) ==
    Plane_intersection_Line(Plane_new(Point_ORIGIN, self.vector), self)

\* Plane::point: the point of the plane nearest the origin
Plane_point(self) ==
    Plane_intersection_Line(self, Line_new(Point_ORIGIN, self.normal_vector))

\* same_direction && self.point() == other.point(), for Line and for Plane
EqByPoints(same_direction, p, q) ==
    IF ~same_direction THEN Ok(FALSE)
    ELSE IF p.panic \/ q.panic THEN Panic
    ELSE Ok(Matrix_eq(p.val, q.val))

\* impl PartialEq for Line
Line_eq(self, other) ==
    EqByPoints(Matrix_eq(self.vector, other.vector)
                  \/ Matrix_eq(self.vector, Vector_neg(other.vector)),
               Line_point(self), Line_point(other))

\* impl PartialEq for Plane
Plane_eq(self, other) ==
    EqByPoints(Matrix_eq(self.normal_vector, other.normal_vector)
                  \/ Matrix_eq(self.normal_vector, Vector_neg(other.normal_vector)),
               Plane_point(self), Plane_point(other))

\* operand sets
\* directions a little off the x axis: by eps/2, 2 eps and 8 eps
SkewVecs == {<<I(1), Q(k, 2 * EpsDen), I(0)>> : k \in {1, 4, 16}}

GeoPoints == {Point_ORIGIN, <<I(1), I(2), I(3)>>, <<I(0), I(0), I(3)>>}

GeoDirs == (IntVecs(GeoMax) \ {Vector_ZERO}) \cup SkewVecs

ProbeDirs ==
    {X_UNIT_VECTOR, Y_UNIT_VECTOR, Z_UNIT_VECTOR,
     <<I(2), I(0), I(0)>>, <<I(-1), I(1), I(0)>>, <<I(1), I(1), I(0)>>,
     <<I(0), I(-1), I(1)>>, <<I(2), I(2), I(2)>>}
    \cup SkewVecs

GeoIdle == [op |-> "none", a |-> X_AXIS, b |-> X_AXIS, done |-> TRUE, out |-> Panic]

GeoCall(op, a, b) == [op |-> op, a |-> a, b |-> b, done |-> FALSE, out |-> Panic]

\* the calls to make
GeoInputs(g) ==
    \E p \in GeoPoints, n \in GeoDirs, q \in GeoPoints, m \in ProbeDirs :
        \/ g = GeoCall("plane_plane", Plane_new(p, n), Plane_new(q, m))
        \/ g = GeoCall("plane_line", Plane_new(p, n), Line_new(q, m))
        \/ /\ n \notin SkewVecs /\ m \notin SkewVecs
           /\ \/ g = GeoCall("line_eq", Line_new(p, n), Line_new(q, m))
              \/ g = GeoCall("plane_eq", Plane_new(p, n), Plane_new(q, m))

\* Plane.intersection(Plane)
IntersectPlanes ==
    /\ geo.op = "plane_plane" /\ ~geo.done
    /\ geo' = [geo EXCEPT !.done = TRUE, !.out = Plane_intersection_Plane(geo.a, geo.b)]
    /\ UNCHANGED <<fp, vec, lb, cube, ring, sph, be, bc, stl, it, rep>>

\* Plane.intersection(Line)
IntersectPlaneLine ==
    /\ geo.op = "plane_line" /\ ~geo.done
    /\ geo' = [geo EXCEPT !.done = TRUE, !.out = Plane_intersection_Line(geo.a, geo.b)]
    /\ UNCHANGED <<fp, vec, lb, cube, ring, sph, be, bc, stl, it, rep>>

\* Line == Line
CompareLines ==
    /\ geo.op = "line_eq" /\ ~geo.done
    /\ geo' = [geo EXCEPT !.done = TRUE, !.out = Line_eq(geo.a, geo.b)]
    /\ UNCHANGED <<fp, vec, lb, cube, ring, sph, be, bc, stl, it, rep>>

\* Plane == Plane
ComparePlanes ==
    /\ geo.op = "plane_eq" /\ ~geo.done
    /\ geo' = [geo EXCEPT !.done = TRUE, !.out = Plane_eq(geo.a, geo.b)]
    /\ UNCHANGED <<fp, vec, lb, cube, ring, sph, be, bc, stl, it, rep>>

-----------------------------------------------------------------------------
(* Point, Location and LocationBuilder *)

\* bounds: the number of translated / rotated calls applied to one Location,
\* and the largest denominator a coordinate may have
MaxSteps == 2
MaxDen == 20000

\* impl Transform for Point
Point_translated(self, offset) == Matrix_add(self, offset)

Point_rotated(self, axis, angle) ==
    LET rotation_origin == axis.point
        v == Vector_rotated(between(rotation_origin, self), axis.vector, angle)
    IN  IF v.panic THEN Panic ELSE Ok(Point_translated(rotation_origin, v.val))

\* Transform::translated_toward, for Point
Point_translated_toward(self, direction, distance) ==
    Point_translated(self, Matrix_mul(direction, QDiv(distance, norm(direction))))

Location_default ==
    [point |-> Point_ORIGIN, right_vector |-> X_UNIT_VECTOR,
     back_vector |-> Y_UNIT_VECTOR]

PanicLocation == [panic |-> TRUE, val |-> Location_default]

\* self.angle_with(other) == 90.deg(): the angle acos(c), c the cosine
\* (self . other) / (|self| |other|), is within the tolerance of a right angle;
\* decided on the cosine as c * c < eps * eps. A zero vector makes c a NaN,
\* which is no angle.
angle_with_is_90deg(self, other) ==
    LET d == inner_product(self, other)
        nn == QMul(NormSq(self), NormSq(other))
        eps2 == QMul(FLOAT_POINT_ALLOWABLE_ERROR, FLOAT_POINT_ALLOWABLE_ERROR)
    IN  IF nn = I(0) THEN FALSE ELSE QLt(QMul(d, d), QMul(eps2, nn))

Location_new_unnormalised(point, right_vector, back_vector) ==
    IF ~angle_with_is_90deg(right_vector, back_vector)
    THEN PanicLocation
    ELSE Ok([point |-> point, right_vector |-> right_vector,
             back_vector |-> back_vector])

Location_new(point, right_vector, back_vector) ==
    IF ~angle_with_is_90deg(right_vector, back_vector)
    THEN PanicLocation
    ELSE LET r == to_unit_vector(right_vector)
             b == to_unit_vector(back_vector)
         IN  IF r.panic \/ b.panic THEN PanicLocation
             ELSE Ok([point |-> point, right_vector |-> r.val,
                      back_vector |-> b.val])

Location_left_vector(self) == Vector_neg(self.right_vector)
Location_right_vector(self) == self.right_vector
Location_front_vector(self) == Vector_neg(self.back_vector)
Location_back_vector(self) == self.back_vector
Location_bottom_vector(self) == vector_product(self.back_vector, self.right_vector)
Location_top_vector(self) == vector_product(self.right_vector, self.back_vector)

\* impl Transform for Location
Location_translated(self, offset) ==
    [point |-> Point_translated(self.point, offset),
     right_vector |-> self.right_vector,
     back_vector |-> self.back_vector]

Location_rotated(self, axis, angle) ==
    LET p == Point_rotated(self.point, axis, angle)
        r == Vector_rotated(self.right_vector, axis.vector, angle)
        b == Vector_rotated(self.back_vector, axis.vector, angle)
    IN  IF p.panic \/ r.panic \/ b.panic THEN PanicLocation
        ELSE Ok([point |-> p.val, right_vector |-> r.val, back_vector |-> b.val])

\* LocationBuilder: each of the three slots is an array of zero or one vector
LocationBuilder_new(point) ==
    [point |-> point, right_vector |-> <<>>, back_vector |-> <<>>,
     top_vector |-> <<>>]

\* impl LocationBuilder<false, false, false>
Builder_right_vector(self, right_vector) ==
    [self EXCEPT !.right_vector = <<right_vector>>]
Builder_back_vector(self, back_vector) ==
    [self EXCEPT !.back_vector = <<back_vector>>]
Builder_top_vector(self, top_vector) ==
    [self EXCEPT !.top_vector = <<top_vector>>]

\* impl LocationBuilder<true, false, false>
BuilderX_back_vector(self, back_vector) ==
    Location_new(self.point, self.right_vector[1], back_vector)
BuilderX_top_vector(self, top_vector) ==
    LET right_vector == self.right_vector[1]
        back_vector == vector_product(top_vector, right_vector)
    IN  Location_new(self.point, right_vector, back_vector)

\* impl LocationBuilder<false, true, false>
BuilderY_right_vector(self, right_vector) ==
    Location_new(self.point, right_vector, self.back_vector[1])
BuilderY_top_vector(self, top_vector) ==
    LET back_vector == self.back_vector[1]
        right_vector == vector_product(back_vector, top_vector)
    IN  Location_new(self.point, right_vector, back_vector)

BuilderZ_right_vector_lefthanded(self, right_vector) ==
    LET top_vector == self.top_vector[1]
        back_vector == vector_product(right_vector, top_vector)
    IN  Location_new(self.point, right_vector, back_vector)

\* impl LocationBuilder<false, false, true>
BuilderZ_right_vector(self, right_vector) ==
    LET top_vector == self.top_vector[1]
        back_vector == vector_product(top_vector, right_vector)
    IN  Location_new(self.point, right_vector, back_vector)
BuilderZ_back_vector(self, back_vector) ==
    LET top_vector == self.top_vector[1]
        right_vector == vector_product(back_vector, top_vector)
    IN  Location_new(self.point, right_vector, back_vector)

\* the directions a caller has in mind: <<right, back, top>>
Frames ==
    {<<X_UNIT_VECTOR, Y_UNIT_VECTOR, Z_UNIT_VECTOR>>,
     <<Y_UNIT_VECTOR, Vector_neg(X_UNIT_VECTOR), Z_UNIT_VECTOR>>,
     <<<<I(2), I(0), I(0)>>, <<I(0), I(3), I(0)>>, <<I(0), I(0), I(5)>>>>,
     <<<<I(1), I(2), I(2)>>, <<I(2), I(1), I(-2)>>, <<I(-2), I(2), I(-1)>>>>,
     <<X_UNIT_VECTOR, Y_UNIT_VECTOR, <<I(3), I(0), I(4)>>>>,
     <<X_UNIT_VECTOR, <<I(3), I(4), I(0)>>, Z_UNIT_VECTOR>>,
     <<X_UNIT_VECTOR, Y_UNIT_VECTOR, <<I(0), I(3), I(4)>>>>,
     <<X_UNIT_VECTOR, <<Q(41, 841), Q(840, 841), I(0)>>, Z_UNIT_VECTOR>>,
     <<X_UNIT_VECTOR, Y_UNIT_VECTOR, <<I(2), I(0), I(0)>>>>}

\* the vector the caller passes under each of the six names
FrameDir(frame, name) ==
    CASE name = "right" -> frame[1]
      [] name = "left" -> Vector_neg(frame[1])
      [] name = "back" -> frame[2]
      [] name = "front" -> Vector_neg(frame[2])
      [] name = "top" -> frame[3]
      [] name = "bottom" -> Vector_neg(frame[3])

LbOrigins == {Point_ORIGIN, <<I(1), I(2), I(3)>>}
LbOffsets == {<<I(1), I(2), I(3)>>, <<Q(-1, 2), I(0), I(0)>>}
LbRotations ==
    {<<Line_new(<<I(1), I(2), I(3)>>, Z_UNIT_VECTOR), <<1, 0>>>>,
     <<Line_new(Point_ORIGIN, <<I(1), I(2), I(2)>>), <<1, 0>>>>,
     <<Line_new(Point_ORIGIN, <<I(2), I(0), I(0)>>), <<0, 1>>>>}

LbIdle ==
    [phase |-> "none", frame |-> <<Vector_ZERO, Vector_ZERO, Vector_ZERO>>,
     origin |-> Point_ORIGIN, names |-> <<>>,
     builder |-> LocationBuilder_new(Point_ORIGIN), loc |-> PanicLocation,
     prev |-> Location_default, last |-> "none", offset |-> Vector_ZERO,
     steps |-> 0]

LbInputs ==
    {[LbIdle EXCEPT !.phase = "start", !.frame = f, !.origin = o] :
        f \in Frames, o \in LbOrigins}

\* the least common denominator of the coordinates of a vector or point
DenOf(v) ==
    LET l12 == (v[1][2] \div GCD(v[1][2], v[2][2])) * v[2][2]
    IN  (l12 \div GCD(l12, v[3][2])) * v[3][2]

Representable(l) ==
    /\ DenOf(l.point) <= MaxDen
    /\ DenOf(l.right_vector) <= MaxDen
    /\ DenOf(l.back_vector) <= MaxDen

\* Location::default()
LocDefault ==
    /\ lb.phase = "start"
    /\ lb' = [lb EXCEPT !.phase = "built", !.loc = Ok(Location_default),
                        !.last = "default"]
    /\ UNCHANGED <<fp, vec, geo, cube, ring, sph, be, bc, stl, it, rep>>

\* Location::build(point)
LocBuild ==
    /\ lb.phase = "start"
    /\ lb' = [lb EXCEPT !.phase = "empty",
                        !.builder = LocationBuilder_new(lb.origin)]
    /\ UNCHANGED <<fp, vec, geo, cube, ring, sph, be, bc, stl, it, rep>>

\* a first direction is given under the name
GiveFirst(name, builder) ==
    /\ lb.phase = "empty"
    /\ lb' = [lb EXCEPT !.phase = "first", !.names = <<name>>,
                        !.builder = builder]
    /\ UNCHANGED <<fp, vec, geo, cube, ring, sph, be, bc, stl, it, rep>>

GiveRight ==
    GiveFirst("right", Builder_right_vector(lb.builder, FrameDir(lb.frame, "right")))
GiveLeft ==
    GiveFirst("left",
              Builder_right_vector(lb.builder, Vector_neg(FrameDir(lb.frame, "left"))))
GiveBack ==
    GiveFirst("back", Builder_back_vector(lb.builder, FrameDir(lb.frame, "back")))
GiveFront ==
    GiveFirst("front",
              Builder_back_vector(lb.builder, Vector_neg(FrameDir(lb.frame, "front"))))
GiveTop ==
    GiveFirst("top", Builder_top_vector(lb.builder, FrameDir(lb.frame, "top")))
GiveBottom ==
    GiveFirst("bottom",
              Builder_top_vector(lb.builder, Vector_neg(FrameDir(lb.frame, "bottom"))))

\* a second direction is given under the name: the Location or the panic
GiveSecond(name, result) ==
    /\ lb.phase = "first"
    /\ lb' = [lb EXCEPT !.phase = IF result.panic THEN "panicked" ELSE "built",
                        !.names = Append(@, name), !.loc = result,
                        !.last = "build"]
    /\ UNCHANGED <<fp, vec, geo, cube, ring, sph, be, bc, stl, it, rep>>

RightThenBack ==
    /\ Len(lb.builder.right_vector) = 1
    /\ GiveSecond("back", BuilderX_back_vector(lb.builder, FrameDir(lb.frame, "back")))
RightThenFront ==
    /\ Len(lb.builder.right_vector) = 1
    /\ GiveSecond("front", BuilderX_back_vector(lb.builder,
                               Vector_neg(FrameDir(lb.frame, "front"))))
RightThenTop ==
    /\ Len(lb.builder.right_vector) = 1
    /\ GiveSecond("top", BuilderX_top_vector(lb.builder, FrameDir(lb.frame, "top")))
RightThenBottom ==
    /\ Len(lb.builder.right_vector) = 1
    /\ GiveSecond("bottom", BuilderX_top_vector(lb.builder,
                                Vector_neg(FrameDir(lb.frame, "bottom"))))
BackThenRight ==
    /\ Len(lb.builder.back_vector) = 1
    /\ GiveSecond("right", BuilderY_right_vector(lb.builder, FrameDir(lb.frame, "right")))
BackThenLeft ==
    /\ Len(lb.builder.back_vector) = 1
    /\ GiveSecond("left", BuilderY_right_vector(lb.builder,
                              Vector_neg(FrameDir(lb.frame, "left"))))
BackThenTop ==
    /\ Len(lb.builder.back_vector) = 1
    /\ GiveSecond("top", BuilderY_top_vector(lb.builder, FrameDir(lb.frame, "top")))
BackThenBottom ==
    /\ Len(lb.builder.back_vector) = 1
    /\ GiveSecond("bottom", BuilderY_top_vector(lb.builder,
                                Vector_neg(FrameDir(lb.frame, "bottom"))))
TopThenRight ==
    /\ Len(lb.builder.top_vector) = 1
    /\ GiveSecond("right", BuilderZ_right_vector(lb.builder, FrameDir(lb.frame, "right")))
TopThenLeft ==
    /\ Len(lb.builder.top_vector) = 1
    /\ GiveSecond("left", BuilderZ_right_vector(lb.builder,
                              Vector_neg(FrameDir(lb.frame, "left"))))
TopThenBack ==
    /\ Len(lb.builder.top_vector) = 1
    /\ GiveSecond("back", BuilderZ_back_vector(lb.builder, FrameDir(lb.frame, "back")))
TopThenFront ==
    /\ Len(lb.builder.top_vector) = 1
    /\ GiveSecond("front", BuilderZ_back_vector(lb.builder,
                               Vector_neg(FrameDir(lb.frame, "front"))))

\* Location::translated
LocTranslated ==
    /\ lb.phase = "built" /\ lb.steps < MaxSteps
    /\ \E offset \in LbOffsets :
          lb' = [lb EXCEPT !.loc = Ok(Location_translated(lb.loc.val, offset)),
                           !.prev = lb.loc.val, !.last = "translated",
                           !.offset = offset, !.steps = @ + 1]
    /\ UNCHANGED <<fp, vec, geo, cube, ring, sph, be, bc, stl, it, rep>>

\* Location::rotated
LocRotated ==
    /\ lb.phase = "built" /\ lb.steps < MaxSteps
    /\ \E r \in LbRotations :
          LET result == Location_rotated(lb.loc.val, r[1], r[2])
          IN  /\ Representable(result.val)
              /\ lb' = [lb EXCEPT !.phase = IF result.panic THEN "panicked"
                                            ELSE "built",
                                  !.loc = result, !.prev = lb.loc.val,
                                  !.last = "rotated", !.offset = Vector_ZERO,
                                  !.steps = @ + 1]
    /\ UNCHANGED <<fp, vec, geo, cube, ring, sph, be, bc, stl, it, rep>>

-----------------------------------------------------------------------------
(* Cube and Facet *)

\* bound: the sizes of a cube along each axis are 1..MaxSize
MaxSize == 2

\* Cube::new
Cube_new(location, size) == [location |-> location, size |-> size]

\* impl Solid for Cube: the facets, each a triple of vertexes
Cube_generate_stl_solid(self) ==
    LET point == self.location.point
        right_vector == Location_right_vector(self.location)
        back_vector == Location_back_vector(self.location)
        top_vector == Location_top_vector(self.location)
        p(x, y, z) ==
            Point_translated_toward(
                Point_translated_toward(
                    Point_translated_toward(point, right_vector, x),
                    back_vector, y),
                top_vector, z)
        size_0 == Size_ZERO
        size_x == self.size[1]
        size_y == self.size[2]
        size_z == self.size[3]
        left_front_bottom == p(size_0, size_0, size_0)
        right_front_bottom == p(size_x, size_0, size_0)
        left_back_bottom == p(size_0, size_y, size_0)
        right_back_bottom == p(size_x, size_y, size_0)
        left_front_top == p(size_0, size_0, size_z)
        right_front_top == p(size_x, size_0, size_z)
        left_back_top == p(size_0, size_y, size_z)
        right_back_top == p(size_x, size_y, size_z)
    IN  << <<left_front_bottom, left_back_bottom, right_back_bottom>>,
           <<right_back_bottom, right_front_bottom, left_front_bottom>>,
           <<left_front_bottom, right_front_bottom, right_front_top>>,
           <<right_front_top, left_front_top, left_front_bottom>>,
           <<right_front_bottom, right_back_bottom, right_front_top>>,
           <<right_back_top, right_front_top, right_back_bottom>>,
           <<right_back_bottom, left_back_bottom, right_back_top>>,
           <<left_back_top, right_back_top, left_back_bottom>>,
           <<left_back_bottom, left_front_bottom, left_back_top>>,
           <<left_front_top, left_back_top, left_front_bottom>>,
           <<left_front_top, right_front_top, right_back_top>>,
           <<right_back_top, left_back_top, left_front_top>> >>

Facet_normal_vector_reversed(self) ==
    LET v1 == between(self[1], self[2])
        v2 == between(self[2], self[3])
    IN  to_unit_vector(vector_product(v2, v1))

\* Facet::normal_vector
Facet_normal_vector(self) ==
    LET v1 == between(self[1], self[2])
        v2 == between(self[2], self[3])
    IN  to_unit_vector(vector_product(v1, v2))

\* Locations made by the builder's constructor and by rotating the default
CubeLocations ==
    {Location_new(o, f[1], f[2]).val :
        f \in {g \in Frames : ~Location_new(Point_ORIGIN, g[1], g[2]).panic},
        o \in LbOrigins}
    \cup {Location_rotated(Location_default, r[1], r[2]).val : r \in LbRotations}

CubeSizes == {<<I(x), I(y), I(z)>> : x \in 1..MaxSize, y \in 1..MaxSize, z \in 1..MaxSize}

CubeIdle ==
    [op |-> "none", self |-> Cube_new(Location_default, <<I(1), I(1), I(1)>>),
     done |-> TRUE, facets |-> <<>>]

CubeInputs ==
    {[op |-> "generate_stl_solid", self |-> Cube_new(l, s), done |-> FALSE,
      facets |-> <<>>] : l \in CubeLocations, s \in CubeSizes}

\* Cube::generate_stl_solid
GenerateStlSolid ==
    /\ cube.op = "generate_stl_solid" /\ ~cube.done
    /\ cube' = [cube EXCEPT !.done = TRUE,
                            !.facets = Cube_generate_stl_solid(cube.self)]
    /\ UNCHANGED <<fp, vec, geo, lb, ring, sph, be, bc, stl, it, rep>>

-----------------------------------------------------------------------------
(* Angle iteration: src/geometry/angle_iterator.rs *)

\* the steps drawn are q quarter turns + p * atan(3/4), q in 0..StepQuarters
StepQuarters == 4
\* |p| <= StepMax
StepMax == 2

\* Angle.0, the radians of the angle <<q, p>> (pi/2 and atan(3/4) to four
\* decimals)
Angle_to_radian(self) == Q(self[1] * 15708 + self[2] * 6435, 10000)

Angle_ZERO == <<0, 0>>
deg360 == <<4, 0>>

Angle_add(self, rhs) == <<self[1] + rhs[1], self[2] + rhs[2]>>
Angle_mul(self, rhs) == <<self[1] * rhs, self[2] * rhs>>

\* rough_cmp(s, o) = Ordering::Less
rough_lt(s, o) ==
    /\ QLt(s, QAdd(o, FLOAT_POINT_ALLOWABLE_ERROR))
    /\ ~QLt(QSub(o, FLOAT_POINT_ALLOWABLE_ERROR), s)

\* impl Ord for Angle: self < other, self > other
Angle_lt(self, other) == rough_lt(Angle_to_radian(self), Angle_to_radian(other))
Angle_gt(self, other) == Angle_lt(other, self)

\* `as usize` of a finite f64
as_usize(x) == IF x[1] < 0 THEN 0 ELSE x[1] \div x[2]

angle_count_exact(start, end, step) ==
    IF Angle_lt(start, end)
    THEN IF Angle_lt(step, Angle_ZERO) THEN 0
         ELSE as_usize(QDiv(QSub(Angle_to_radian(end), Angle_to_radian(start)),
                            Angle_to_radian(step))) + 1
    ELSE IF Angle_gt(step, Angle_ZERO) THEN 0
         ELSE as_usize(QDiv(QSub(Angle_to_radian(end), Angle_to_radian(start)),
                            Angle_to_radian(step))) + 1

\* angle_count: the number of angles of start..end (end excluded)
angle_count(start, end, step) ==
    IF Angle_lt(start, end)
    THEN IF Angle_lt(step, Angle_ZERO) THEN 0
         ELSE as_usize(QDiv(QSub(QSub(Angle_to_radian(end),
                                      FLOAT_POINT_ALLOWABLE_ERROR),
                                 Angle_to_radian(start)),
                            Angle_to_radian(step))) + 1
    ELSE IF Angle_gt(step, Angle_ZERO) THEN 0
         ELSE as_usize(QDiv(QSub(QAdd(Angle_to_radian(end),
                                      FLOAT_POINT_ALLOWABLE_ERROR),
                                 Angle_to_radian(start)),
                            Angle_to_radian(step))) + 1

\* AngleIterator::new
AngleIterator_new(start, step, len) ==
    [next_left |-> start, next_left_index |-> 0,
     next_right |-> Angle_add(start, Angle_mul(step, len - 1)),
     next_right_index |-> len - 1, step |-> step, len |-> len]

\* AngleIteratorBuilder<Range<Angle>>::step
AngleIteratorBuilder_step(start, end, step) ==
    AngleIterator_new(start, step, angle_count(start, end, step))

\* Iterator::next of AngleIterator, called until it returns None
RECURSIVE AngleIterator_collect(_)
AngleIterator_collect(self) ==
    IF self.next_left_index > self.next_right_index THEN <<>>
    ELSE <<self.next_left>> \o
         AngleIterator_collect(
             [self EXCEPT !.next_left_index = self.next_left_index + 1,
                          !.next_left = Angle_add(self.next_left, self.step)])

-----------------------------------------------------------------------------
(* Cylinder and Cone: src/solid/primitive/cylinder.rs, cone.rs *)

Cylinder_new(location, height, radius) ==
    [location |-> location, height |-> height, radius |-> radius]

Cone_new(location, height, bottom_radius) ==
    [location |-> location, height |-> height, bottom_radius |-> bottom_radius]

\* points.iter().skip(1).chain(points.first())
shifted(points) ==
    [i \in 1..Len(points) |-> points[(i % Len(points)) + 1]]

\* the ring of both solids: the back vector turned about the top vector
ring_points(bottom_point, back, top, radius, minimum_angle) ==
    LET angles == AngleIterator_collect(
                      AngleIteratorBuilder_step(Angle_ZERO, deg360, minimum_angle))
    IN  [i \in 1..Len(angles) |->
            Point_translated_toward(
                bottom_point, Vector_rotated(back, top, angles[i]).val, radius)]

Cylinder_top_facet_reversed(top_point, a, b) == <<top_point, b, a>>

\* cylinder.rs, the closure of top_facets
Cylinder_top_facet(top_point, a, b) == <<top_point, a, b>>

\* impl Solid for Cylinder; minimum_angle is the value *FRAGMENT_MINIMUM_ANGLE reads
Cylinder_generate_stl_solid(self, minimum_angle) ==
    LET back == Location_back_vector(self.location)
        top == Location_top_vector(self.location)
        radius == self.radius
        height == self.height
        bottom_point == self.location.point
        top_point == Point_translated_toward(bottom_point, top, height)
        bottom_points == ring_points(bottom_point, back, top, radius, minimum_angle)
        top_points == [i \in 1..Len(bottom_points) |->
                          Point_translated_toward(bottom_points[i], top, height)]
        shifted_bottom == shifted(bottom_points)
        shifted_top == shifted(top_points)
        bottom_facets == [i \in 1..Len(bottom_points) |->
                             <<bottom_point, shifted_bottom[i], bottom_points[i]>>]
        top_facets == [i \in 1..Len(top_points) |->
                          Cylinder_top_facet(top_point, top_points[i], shifted_top[i])]
        side_facets == [k \in 1..(2 * Len(bottom_points)) |->
                           LET i == (k + 1) \div 2
                           IN  IF k % 2 = 1
                               THEN <<bottom_points[i], shifted_top[i], top_points[i]>>
                               ELSE <<shifted_top[i], bottom_points[i], shifted_bottom[i]>>]
    IN  bottom_facets \o side_facets \o top_facets

\* impl Solid for Cone
Cone_generate_stl_solid(self, minimum_angle) ==
    LET back == Location_back_vector(self.location)
        top == Location_top_vector(self.location)
        radius == self.bottom_radius
        height == self.height
        bottom_point == self.location.point
        top_point == Point_translated_toward(bottom_point, top, height)
        points == ring_points(bottom_point, back, top, radius, minimum_angle)
        shifted_points == shifted(points)
        bottom_facets == [i \in 1..Len(points) |->
                             <<bottom_point, shifted_points[i], points[i]>>]
        side_facets == [i \in 1..Len(points) |->
                           <<points[i], shifted_points[i], top_point>>]
    IN  bottom_facets \o side_facets

\* positive steps
StepAngles ==
    {a \in (0..StepQuarters) \X ((-StepMax)..StepMax) : Angle_gt(a, Angle_ZERO)}

\* the steps whose ring has coordinates n / 5^k with k <= 6, the largest k for
\* which the sums of squares stay below 2^31
MeshSteps ==
    {s \in StepAngles :
        Abs(s[2]) * (angle_count(Angle_ZERO, deg360, s) - 1) <= 6}

RingLocations ==
    {Location_new(o, f[1], f[2]).val :
        f \in {<<X_UNIT_VECTOR, Y_UNIT_VECTOR, Z_UNIT_VECTOR>>,
               <<Y_UNIT_VECTOR, Vector_neg(X_UNIT_VECTOR), Z_UNIT_VECTOR>>},
        o \in LbOrigins}

RingSizes == {I(x) : x \in 1..MaxSize}

RingIdle ==
    [op |-> "none", location |-> Location_default, height |-> I(1),
     radius |-> I(1), minimum_angle |-> deg90, done |-> TRUE,
     len |-> 0, facets |-> <<>>]

RingInputs ==
    {[op |-> o, location |-> l, height |-> h, radius |-> r, minimum_angle |-> s,
      done |-> FALSE, len |-> 0, facets |-> <<>>] :
        o \in {"cylinder", "cone"}, l \in RingLocations, h \in RingSizes,
        r \in RingSizes, s \in MeshSteps}
    \cup {[RingIdle EXCEPT !.op = "iterate", !.minimum_angle = s, !.done = FALSE] :
             s \in StepAngles}

\* Angle::iterate(0.deg()..360.deg()).step(minimum_angle)
IterateStep ==
    /\ ring.op = "iterate" /\ ~ring.done
    /\ ring' = [ring EXCEPT
                   !.done = TRUE,
                   !.len = AngleIteratorBuilder_step(
                               Angle_ZERO, deg360, ring.minimum_angle).len]
    /\ UNCHANGED <<fp, vec, geo, lb, cube, sph, be, bc, stl, it, rep>>

\* Cylinder::generate_stl_solid
CylinderGenerate ==
    /\ ring.op = "cylinder" /\ ~ring.done
    /\ ring' = [ring EXCEPT
                   !.done = TRUE,
                   !.facets = Cylinder_generate_stl_solid(
                                  Cylinder_new(ring.location, ring.height, ring.radius),
                                  ring.minimum_angle)]
    /\ UNCHANGED <<fp, vec, geo, lb, cube, sph, be, bc, stl, it, rep>>

\* Cone::generate_stl_solid
ConeGenerate ==
    /\ ring.op = "cone" /\ ~ring.done
    /\ ring' = [ring EXCEPT
                   !.done = TRUE,
                   !.facets = Cone_generate_stl_solid(
                                  Cone_new(ring.location, ring.height, ring.radius),
                                  ring.minimum_angle)]
    /\ UNCHANGED <<fp, vec, geo, lb, cube, sph, be, bc, stl, it, rep>>

-----------------------------------------------------------------------------
(* Sphere: src/solid/primitive/sphere.rs *)

deg0_to_90_overrun(step) ==
    LET len == angle_count(Angle_ZERO, deg90, step) + 1
    IN  AngleIterator_collect(AngleIterator_new(Angle_ZERO, step, len))

\* Angle::par_iterate(0.deg()..90.deg()).step(step), in the order collected
deg0_to_90(step) ==
    LET len == angle_count(Angle_ZERO, deg90, step)
    IN  AngleIterator_collect(AngleIterator_new(Angle_ZERO, step, len))

Sphere_new(location, radius) == [location |-> location, radius |-> radius]

\* impl PartialEq for Point, negated
Point_ne(self, other) == ~Matrix_eq(self, other)

\* the corners of the cell between the polar angles yz and the angles zx
\* of a pair each: corners[i][j] is p turned by yz[i] about the x axis and
\* then by zx[j] about the y axis (aa, ab, ba, bb)
Sphere_cell_corners(p, yz, zx) ==
    [i \in 1..2 |->
        [j \in 1..2 |->
            Point_rotated(Point_rotated(p, X_AXIS, yz[i]).val, Y_AXIS, zx[j]).val]]

Sphere_cell_facets_both(p, yz, zx) ==
    CHOOSE facets \in
        {<<<<c[1][1], c[2][1], c[1][2]>>, <<c[2][2], c[1][2], c[2][1]>>>> :
            c \in {Sphere_cell_corners(p, yz, zx)}} : TRUE

\* the two facets of the cell: aa_facet, and bb_facet unless ba and bb are
\* equal
Sphere_cell_facets(p, yz, zx) ==
    CHOOSE facets \in
        {<<<<c[1][1], c[2][1], c[1][2]>>>> \o
         (IF Point_ne(c[2][1], c[2][2])
          THEN <<<<c[2][2], c[1][2], c[2][1]>>>> ELSE <<>>) :
            c \in {Sphere_cell_corners(p, yz, zx)}} : TRUE

\* the concatenation of the sequences of a sequence
RECURSIVE flatten(_)
flatten(seqs) == IF seqs = <<>> THEN <<>> ELSE Head(seqs) \o flatten(Tail(seqs))

\* generate_stl_solid up to collect(): the facets of one octant
Sphere_octant_facets(self, minimum_angle) ==
    LET shifted_angles(angles) == SubSeq(angles, 2, Len(angles)) \o <<deg90>>
        p == Point_translated_toward(Point_ORIGIN, Z_UNIT_VECTOR, self.radius)
        cells(zipped_angles) ==
            flatten([i \in 1..Len(zipped_angles) |->
                flatten([j \in 1..Len(zipped_angles) |->
                    Sphere_cell_facets(p, zipped_angles[i], zipped_angles[j])])])
    IN  CHOOSE facets \in
            {cells([i \in 1..Len(angles) |-> <<angles[i], shifted_angles(angles)[i]>>]) :
                angles \in {deg0_to_90(minimum_angle)}} : TRUE

\* negative
negative(facet, x, y, z) ==
    [k \in 1..3 |->
        <<IF x THEN QNeg(facet[k][1]) ELSE facet[k][1],
          IF y THEN QNeg(facet[k][2]) ELSE facet[k][2],
          IF z THEN QNeg(facet[k][3]) ELSE facet[k][3]>>]

\* reverse
reverse(facet) == <<facet[1], facet[3], facet[2]>>

locate_nowhere(facet, location) == facet

\* locate
locate(facet, location) ==
    LET offset == between(Point_ORIGIN, location.point)
    IN  [k \in 1..3 |-> Point_translated(facet[k], offset)]

\* bit b (0, 1, 2) of the replica index i is set
bit(i, b) == (i \div (2 ^ b)) % 2 = 1

\* the closure of for_each, on facet f of replica i (0..7)
Sphere_replica_facet_unreversed(f, i, location) ==
    locate(negative(f, bit(i, 0), bit(i, 1), bit(i, 2)), location)

Sphere_replica_facet(f, i, location) ==
    LET x_negative == bit(i, 0)
        y_negative == bit(i, 1)
        z_negative == bit(i, 2)
        negated == negative(f, x_negative, y_negative, z_negative)
        reversed == IF (x_negative # y_negative) # z_negative
                    THEN reverse(negated) ELSE negated
    IN  locate(reversed, location)

\* copy_elements::<_, 7> and the for_each over the eight slices
Sphere_replicate(octant, location) ==
    [k \in 1..(8 * Len(octant)) |->
        Sphere_replica_facet(octant[((k - 1) % Len(octant)) + 1],
                             (k - 1) \div Len(octant), location)]

\* impl Solid for Sphere; minimum_angle is the value *FRAGMENT_MINIMUM_ANGLE reads
Sphere_generate_stl_solid(self, minimum_angle) ==
    CHOOSE facets \in
        {Sphere_replicate(octant, self.location) :
            octant \in {Sphere_octant_facets(self, minimum_angle)}} : TRUE

\* the steps whose octant has coordinates n / 5^k with k <= 4, the largest k
\* for which the products of three coordinates stay below 2^31
SphereSteps ==
    {s \in StepAngles :
        2 * Abs(s[2]) * (angle_count(Angle_ZERO, deg90, s) - 1) <= 4}

\* radii: half a unit, below which facets are within the tolerance, and units
SphereRadii == {Q(1, 2)} \cup {I(x) : x \in 1..MaxSize}

SphIdle ==
    [op |-> "none", location |-> Location_default, radius |-> I(1),
     minimum_angle |-> deg90, done |-> TRUE, octant |-> <<>>, facets |-> <<>>]

SphInputs ==
    {[op |-> "sphere", location |-> l, radius |-> r, minimum_angle |-> s,
      done |-> FALSE, octant |-> <<>>, facets |-> <<>>] :
        l \in RingLocations, r \in SphereRadii, s \in SphereSteps}

\* Sphere::generate_stl_solid; octant keeps the facets collected before the
\* replication
SphereGenerate ==
    /\ sph.op = "sphere" /\ ~sph.done
    /\ \E octant \in {Sphere_octant_facets(Sphere_new(sph.location, sph.radius),
                                          sph.minimum_angle)} :
           sph' = [sph EXCEPT
                      !.done = TRUE,
                      !.octant = octant,
                      !.facets = Sphere_replicate(octant, sph.location)]
    /\ UNCHANGED <<fp, vec, geo, lb, cube, ring, be, bc, stl, it, rep>>

-----------------------------------------------------------------------------
(* Build environments: src/solid/builder/build_env.rs *)

\* BuildEnv::new is called at most MaxEnvs times
MaxEnvs == 4
\* env scopes nest at most MaxDepth deep
MaxDepth == 2
\* the values given to env are 1..MaxValue
MaxValue == 1

\* the thread that builds, and a thread of the parallel pool
Threads == {"main", "worker"}

\* BuildEnv::new is called at most MaxWorkerEnvs times on the pool thread
MaxWorkerEnvs == 1

\* the type T of the k-th BuildEnv<T> created
TypeOf(k) == IF k % 2 = 1 THEN "Angle" ELSE "i32"

\* a Box<dyn Any> that holds the value v of type ty
Boxed(ty, v) == [ty |-> ty, v |-> v]

\* the value the default closure of the k-th BuildEnv returns
DefaultOf(k) == Boxed(TypeOf(k), 10 * k)

\* the capacity of std's HashMap after it grows from capacity cap
HashMap_grown(cap) == IF cap = 0 THEN 3 ELSE IF cap = 3 THEN 7 ELSE 2 * cap

\* ENV_MAP of thread t after map.entry(id).or_insert_with(default): the
\* entries, the capacity, and the number of the allocation that holds them
ENV_MAP_entry(m, id, default) ==
    IF id \in DOMAIN m.cells THEN m
    ELSE IF Cardinality(DOMAIN m.cells) < m.cap
    THEN [m EXCEPT !.cells = (id :> default) @@ m.cells]
    ELSE [cells |-> (id :> default) @@ m.cells,
          cap |-> HashMap_grown(m.cap), alloc |-> m.alloc + 1]

\* BuildEnv::cell_inner_mut on thread t: the state after it
cell_inner_mut(b, t, e) ==
    [b EXCEPT !.map[t] = ENV_MAP_entry(b.map[t], b.envs[e].id, b.envs[e].default)]

\* Deref for BuildEnv on thread t: the value read
BuildEnv_deref(b, t, e) == cell_inner_mut(b, t, e).map[t].cells[b.envs[e].id]

\* r.downcast_ref() is None in Deref for BuildEnv on thread t: the Box in
\* the slot holds a value of another type than the T of the environment
downcast_fails(b, t, e) == BuildEnv_deref(b, t, e).ty # b.envs[e].default.ty

BeIdle ==
    [next_id |-> [t \in Threads |-> 0], envs |-> <<>>,
     map |-> [t \in Threads |-> [cells |-> <<>>, cap |-> 0, alloc |-> 0]],
     stack |-> <<>>, panicked |-> FALSE, unwrap_failed |-> FALSE,
     region |-> [active |-> FALSE, entered |-> <<>>],
     worker_read |-> <<>>]

\* BuildEnv::new on thread t: the id comes from the NEXT_ID of that thread
BuildEnv_new(b, t) ==
    [b EXCEPT
        !.envs = Append(b.envs, [id |-> b.next_id[t],
                                 default |-> DefaultOf(Len(b.envs) + 1)]),
        !.next_id[t] = b.next_id[t] + 1]

\* BuildEnv::new, on the main thread
NewEnv ==
    /\ ~be.region.active
    /\ Len(be.envs) < MaxEnvs
    /\ be' = BuildEnv_new(be, "main")
    /\ UNCHANGED <<fp, vec, geo, lb, cube, ring, sph, bc, stl, it, rep>>

\* *e, on the main thread: the first read inserts the default; unwrap panics
\* when the slot holds a value of another type
MainRead ==
    /\ ~be.region.active
    /\ \E e \in 1..Len(be.envs) :
           /\ \/ be.envs[e].id \notin DOMAIN be.map["main"].cells
              \/ (downcast_fails(be, "main", e) /\ ~be.unwrap_failed)
           /\ be' = [cell_inner_mut(be, "main", e) EXCEPT
                        !.unwrap_failed = @ \/ downcast_fails(be, "main", e)]
    /\ UNCHANGED <<fp, vec, geo, lb, cube, ring, sph, bc, stl, it, rep>>

\* env(e, value, build_action) up to the call of build_action: the frame
\* keeps old_value and the allocation cell_inner_mut points into
EnvEnter ==
    /\ ~be.region.active
    /\ Len(be.stack) < MaxDepth
    /\ \E e \in 1..Len(be.envs) :
       \E value \in {Boxed(be.envs[e].default.ty, v) : v \in 1..MaxValue} :
           LET b == cell_inner_mut(be, "main", e)
               id == be.envs[e].id
           IN  be' = [b EXCEPT
                         !.map["main"].cells[id] = value,
                         !.stack = Append(be.stack,
                                          [env |-> e, value |-> value,
                                           old_value |-> b.map["main"].cells[id],
                                           alloc |-> b.map["main"].alloc])]
    /\ UNCHANGED <<fp, vec, geo, lb, cube, ring, sph, bc, stl, it, rep>>

\* env after build_action returned: *cell_inner_mut = old_value.  When the
\* map has grown since, cell_inner_mut dangles and the write is undefined
\* behaviour: the cell of the environment is left with any value
EnvReturn ==
    /\ ~be.region.active
    /\ be.stack # <<>>
    /\ LET top == be.stack[Len(be.stack)]
           id == be.envs[top.env].id
       IN  \E v \in IF top.alloc = be.map["main"].alloc
                    THEN {top.old_value}
                    ELSE {top.old_value, be.map["main"].cells[id]} \cup
                         {Boxed(be.envs[top.env].default.ty, g) : g \in 1..MaxValue} :
               be' = [be EXCEPT
                         !.map["main"].cells[id] = v,
                         !.stack = SubSeq(be.stack, 1, Len(be.stack) - 1)]
    /\ UNCHANGED <<fp, vec, geo, lb, cube, ring, sph, bc, stl, it, rep>>

\* env when build_action panics: the unwinding drops old_value and leaves
\* env without the assignment
EnvPanic ==
    /\ ~be.region.active
    /\ be.stack # <<>>
    /\ be' = [be EXCEPT !.stack = SubSeq(be.stack, 1, Len(be.stack) - 1),
                        !.panicked = TRUE]
    /\ UNCHANGED <<fp, vec, geo, lb, cube, ring, sph, bc, stl, it, rep>>

\* the main thread enters a parallel region (into_par_iter ... for_each) and
\* waits; entered keeps the value of every environment as read there
ParEnter ==
    /\ ~be.region.active
    /\ be' = [be EXCEPT
                 !.region = [active |-> TRUE,
                             entered |-> [e \in 1..Len(be.envs) |->
                                             BuildEnv_deref(be, "main", e)]]]
    /\ UNCHANGED <<fp, vec, geo, lb, cube, ring, sph, bc, stl, it, rep>>

\* *e in a closure of the parallel region, run by the pool thread
WorkerRead ==
    /\ be.region.active
    /\ \E e \in 1..Len(be.envs) :
           be' = [cell_inner_mut(be, "worker", e) EXCEPT
                     !.worker_read = <<e, BuildEnv_deref(be, "worker", e)>>,
                     !.unwrap_failed = @ \/ downcast_fails(be, "worker", e)]
    /\ UNCHANGED <<fp, vec, geo, lb, cube, ring, sph, bc, stl, it, rep>>

\* BuildEnv::new in a closure of the parallel region, run by the pool thread:
\* a Lazy static such as FRAGMENT_MINIMUM_ANGLE is created by the thread that
\* touches it first, and a BuildEnv is Send and Sync
WorkerNewEnv ==
    /\ be.region.active
    /\ Len(be.envs) < MaxEnvs
    /\ be.next_id["worker"] < MaxWorkerEnvs
    /\ be' = BuildEnv_new(be, "worker")
    /\ UNCHANGED <<fp, vec, geo, lb, cube, ring, sph, bc, stl, it, rep>>

\* the parallel region ends
ParLeave ==
    /\ be.region.active
    /\ be' = [be EXCEPT !.region = [active |-> FALSE, entered |-> <<>>],
                        !.worker_read = <<>>]
    /\ UNCHANGED <<fp, vec, geo, lb, cube, ring, sph, bc, stl, it, rep>>

-----------------------------------------------------------------------------
(* Parents and BuildContext: src/solid/builder/build_context.rs,
   src/solid/solid_parent.rs, src/solid/primitive/translate.rs, rotate.rs *)

\* the number of translate / rotate / <<= SolidImpl calls of one build
MaxCalls == 4

\* tests::SolidImpl: a leaf whose mesh is its one facet
SolidImpl(facet) == [kind |-> "SolidImpl", facet |-> facet]

Translate_new(offset) == [kind |-> "Translate", offset |-> offset, children |-> <<>>]
Rotate_new(axis, angle) ==
    [kind |-> "Rotate", axis |-> axis, angle |-> angle, children |-> <<>>]

\* Vec<Box<dyn Solid>>::push_borrowing, mutated: the child goes in front
push_borrowing_front(children, value) == <<value>> \o children

\* Vec<Box<dyn Solid>>::push_borrowing
push_borrowing(children, value) == Append(children, value)

\* SolidParent::push, for Translate and for Rotate
SolidParent_push(self, child) ==
    [self EXCEPT !.children = push_borrowing(self.children, child)]

\* impl ShlAssign for BuildContext, through ChildReceiver: the parent after
\* context <<= rhs
BuildContext_shl_assign(parent, rhs) == SolidParent_push(parent, rhs)

RECURSIVE Solid_generate_stl_solid(_)

\* children.iter().flat_map(|c| c.generate_stl_solid().facets).collect()
children_facets(children) ==
    flatten([i \in 1..Len(children) |-> Solid_generate_stl_solid(children[i])])

\* Translate::generate_stl_solid
Translate_generate_stl_solid(self) ==
    LET facets == children_facets(self.children)
    IN  [i \in 1..Len(facets) |->
            [k \in 1..3 |-> Point_translated(facets[i][k], self.offset)]]

\* Rotate::generate_stl_solid
Rotate_generate_stl_solid(self) ==
    LET facets == children_facets(self.children)
    IN  IF Matrix_eq(Line_point(self.axis).val, Point_ORIGIN)
        THEN [i \in 1..Len(facets) |->
                 [k \in 1..3 |->
                     Vector_rotated(facets[i][k], self.axis.vector, self.angle).val]]
        ELSE [i \in 1..Len(facets) |->
                 [k \in 1..3 |-> Point_rotated(facets[i][k], self.axis, self.angle).val]]

\* dyn Solid::generate_stl_solid: the facets of the mesh
Solid_generate_stl_solid(s) ==
    CASE s.kind = "SolidImpl" -> <<s.facet>>
      [] s.kind = "Translate" -> Translate_generate_stl_solid(s)
      [] s.kind = "Rotate" -> Rotate_generate_stl_solid(s)

\* the facets of the leaves
LeafFacets ==
    {<<Point_ORIGIN, <<I(1), I(0), I(0)>>, <<I(0), I(1), I(0)>>>>,
     <<<<I(0), I(0), I(1)>>, <<I(2), I(0), I(1)>>, <<I(1), I(1), I(2)>>>>}

\* the parents a build starts from: two translations, and quarter turns about
\* a line through the origin and about a line that misses it
NewParents ==
    {Translate_new(<<I(1), I(0), I(0)>>), Translate_new(<<I(0), I(2), I(-1)>>),
     Rotate_new(Line_new(Point_ORIGIN, Z_UNIT_VECTOR), <<1, 0>>),
     Rotate_new(Line_new(<<I(1), I(0), I(0)>>, Z_UNIT_VECTOR), <<1, 0>>)}

NoSolid == [kind |-> "none"]

\* stack: the parents whose build_action is running, outermost first;
\* built: the parent the last BuildContext::build returned, until it is
\* pushed or its mesh is generated; calls: the calls made so far, in order
BcIdle == [stack |-> <<>>, built |-> NoSolid, calls |-> <<>>, done |-> FALSE,
           facets |-> <<>>]

\* the number of translate / rotate / <<= SolidImpl calls made so far
CallCount(b) ==
    Cardinality({i \in 1..Len(b.calls) : b.calls[i].call \in {"build", "leaf"}})

\* translate(offset, build_action) / rotate(axis, angle, build_action) up to
\* the call of build_action
Build ==
    /\ ~bc.done /\ bc.built = NoSolid
    /\ CallCount(bc) < MaxCalls
    /\ \E p \in NewParents :
           bc' = [bc EXCEPT !.stack = Append(bc.stack, p),
                            !.calls = Append(bc.calls, [call |-> "build", parent |-> p])]
    /\ UNCHANGED <<fp, vec, geo, lb, cube, ring, sph, be, stl, it, rep>>

\* context <<= SolidImpl(facet) inside a build_action
ShlAssignLeaf ==
    /\ bc.stack # <<>> /\ bc.built = NoSolid
    /\ CallCount(bc) < MaxCalls
    /\ \E f \in LeafFacets :
           bc' = [bc EXCEPT
                     !.stack[Len(bc.stack)] = BuildContext_shl_assign(@, SolidImpl(f)),
                     !.calls = Append(bc.calls, [call |-> "leaf", facet |-> f])]
    /\ UNCHANGED <<fp, vec, geo, lb, cube, ring, sph, be, stl, it, rep>>

\* build_action returns and BuildContext::build returns solid_parent
BuildReturn ==
    /\ bc.stack # <<>> /\ bc.built = NoSolid
    /\ bc' = [bc EXCEPT !.stack = SubSeq(bc.stack, 1, Len(bc.stack) - 1),
                        !.built = bc.stack[Len(bc.stack)],
                        !.calls = Append(bc.calls, [call |-> "return"])]
    /\ UNCHANGED <<fp, vec, geo, lb, cube, ring, sph, be, stl, it, rep>>

\* context <<= translate(..) / rotate(..): the parent just built is pushed to
\* the enclosing parent
ShlAssignParent ==
    /\ bc.stack # <<>> /\ bc.built # NoSolid
    /\ bc' = [bc EXCEPT
                 !.stack[Len(bc.stack)] = BuildContext_shl_assign(@, bc.built),
                 !.built = NoSolid,
                 !.calls = Append(bc.calls, [call |-> "push"])]
    /\ UNCHANGED <<fp, vec, geo, lb, cube, ring, sph, be, stl, it, rep>>

\* generate_stl_solid of the outermost parent
Generate ==
    /\ ~bc.done
    /\ bc.stack = <<>> /\ bc.built # NoSolid
    /\ bc' = [bc EXCEPT !.done = TRUE,
                        !.facets = Solid_generate_stl_solid(bc.built)]
    /\ UNCHANGED <<fp, vec, geo, lb, cube, ring, sph, be, stl, it, rep>>

-----------------------------------------------------------------------------
(* Binary STL output: src/stl/write_stl.rs *)

\* the meshes written have at most MaxFacets facets
MaxFacets == 2

\* usize and u32 counts are kept as <<high, low>> halves of 16 bits
Half == 65536
u32_MAX == <<Half - 1, Half - 1>>
usize_of(n) == <<n \div Half, n % Half>>
usize_gt(a, b) == a[1] > b[1] \/ (a[1] = b[1] /\ a[2] > b[2])

\* u32::to_le_bytes
u32_to_le_bytes(n) == <<n[2] % 256, n[2] \div 256, n[1] % 256, n[1] \div 256>>

\* 2^e as a rational
Pow2Q(e) == IF e >= 0 THEN I(2 ^ e) ELSE Q(1, 2 ^ (-e))

\* the e with 2^e <= q < 2^(e + 1), for q > 0, searched from the guess e
RECURSIVE f32_exponent(_, _)
f32_exponent(q, e) ==
    IF QLt(q, Pow2Q(e)) THEN f32_exponent(q, e - 1)
    ELSE IF ~QLt(q, Pow2Q(e + 1)) THEN f32_exponent(q, e + 1)
    ELSE e

\* the integer nearest the rational x >= 0, ties to the even one
round_ties_even(x) ==
    LET fl == x[1] \div x[2]
        rem == x[1] % x[2]
    IN  IF 2 * rem > x[2] \/ (2 * rem = x[2] /\ fl % 2 = 1) THEN fl + 1 ELSE fl

\* the cast `as f32` of a finite f64 in the normal range of f32, as
\* [sign, exp, frac]: the biased exponent and the 23 fraction bits
as_f32(q) ==
    IF q[1] = 0 THEN [sign |-> 0, exp |-> 0, frac |-> 0]
    ELSE LET a == <<Abs(q[1]), q[2]>>
             e == f32_exponent(a, 0)
             m == round_ties_even(QMul(a, Pow2Q(23 - e)))
             sign == IF q[1] < 0 THEN 1 ELSE 0
         IN  IF m = 2 ^ 24
             THEN [sign |-> sign, exp |-> e + 128, frac |-> 0]
             ELSE [sign |-> sign, exp |-> e + 127, frac |-> m - 2 ^ 23]

\* f32::to_le_bytes
f32_to_le_bytes(f) ==
    <<f.frac % 256, (f.frac \div 256) % 256,
      (f.exp % 2) * 128 + f.frac \div 65536, f.sign * 128 + f.exp \div 2>>

\* the output: the bytes delivered so far, and room, the bytes it still
\* accepts (a Vec<u8> grows: NoLimit; a &mut [u8] accepts what is left of it)
NoLimit == -1

\* Write::write: the writer accepts the front of buf that fits and reports
\* the number of bytes accepted, which the callers below drop
Write_write(output, buf) ==
    IF output.room = NoLimit THEN [output EXCEPT !.bytes = @ \o buf]
    ELSE LET n == IF Len(buf) < output.room THEN Len(buf) ELSE output.room
         IN  [bytes |-> output.bytes \o SubSeq(buf, 1, n), room |-> output.room - n]

\* Write::write_all: an error when the writer accepts less than buf
Write_write_all(output, buf) ==
    [err |-> output.room # NoLimit /\ output.room < Len(buf),
     output |-> Write_write(output, buf)]

\* write_size
write_size(output, size) == Write_write(output, f32_to_le_bytes(as_f32(size)))

\* write_vector and write_point
write_vector(output, vector) ==
    write_size(write_size(write_size(output, vector[1]), vector[2]), vector[3])

write_point(output, point) == write_vector(output, point)

\* write_header
write_header(output) == Write_write_all(output, [i \in 1..80 |-> 0])

\* write_facets_count
write_facets_count(output, facets_count) ==
    IF usize_gt(facets_count, u32_MAX)
    THEN [err |-> TRUE, output |-> output]
    ELSE [err |-> FALSE, output |-> Write_write(output, u32_to_le_bytes(facets_count))]

\* write_facet
write_facet(output, facet) ==
    LET n == Facet_normal_vector(facet)
    IN  IF n.panic THEN [panic |-> TRUE, output |-> output]
        ELSE [panic |-> FALSE,
              output |-> Write_write(
                             write_point(write_point(write_point(
                                 write_vector(output, n.val), facet[1]), facet[2]), facet[3]),
                             <<0, 0>>)]

\* the facets of the meshes written: normals (0, 0, 1) and (0, 3/5, 4/5), and
\* a facet whose vertexes are on one line
StlFacets ==
    {<<Point_ORIGIN, <<I(1), I(0), I(0)>>, <<I(0), I(1), I(0)>>>>,
     <<<<Q(1, 2), I(0), I(0)>>, <<Q(3, 2), I(0), I(0)>>, <<Q(3, 2), I(4), I(-3)>>>>,
     <<Point_ORIGIN, <<I(1), I(0), I(0)>>, <<I(2), I(0), I(0)>>>>}

RECURSIVE SeqsUpTo(_, _)
SeqsUpTo(S, n) ==
    IF n = 0 THEN {<<>>}
    ELSE LET shorter == SeqsUpTo(S, n - 1)
         IN  shorter \cup {Append(q, x) : q \in shorter, x \in S}

\* StlSolid: facets, and len, the value of facets.len().  The mesh of 2^32
\* facets is kept by its length alone: write_stl never reaches its facets
StlSolids ==
    {[facets |-> f, len |-> usize_of(Len(f))] : f \in SeqsUpTo(StlFacets, MaxFacets)}
        \cup {[facets |-> <<>>, len |-> <<Half, 0>>]}

\* the outputs: a Vec<u8>, and the slices &mut [u8] no longer than the file
StlOutputs ==
    {[bytes |-> <<>>, room |-> r] : r \in {NoLimit} \cup (0..(84 + 50 * MaxFacets))}

StlIdle ==
    [solid |-> [facets |-> <<>>, len |-> <<0, 0>>],
     output |-> [bytes |-> <<>>, room |-> NoLimit],
     pc |-> "done", i |-> 0, result |-> "none"]

\* write_stl: write_header(output)?
WriteHeader ==
    /\ stl.pc = "header"
    /\ \E r \in {write_header(stl.output)} :
           stl' = IF r.err
                  THEN [stl EXCEPT !.output = r.output, !.pc = "done",
                                   !.result = "WriteZero"]
                  ELSE [stl EXCEPT !.output = r.output, !.pc = "count"]
    /\ UNCHANGED <<fp, vec, geo, lb, cube, ring, sph, be, bc, it, rep>>

\* write_stl: write_facets_count(output, solid.facets.len())?, and Ok(())
\* when the mesh has no facet
WriteFacetsCount ==
    /\ stl.pc = "count"
    /\ \E r \in {write_facets_count(stl.output, stl.solid.len)} :
           stl' = IF r.err
                  THEN [stl EXCEPT !.pc = "done", !.result = "TooManyFacets"]
                  ELSE IF stl.solid.facets = <<>>
                  THEN [stl EXCEPT !.output = r.output, !.pc = "done", !.result = "Ok"]
                  ELSE [stl EXCEPT !.output = r.output, !.pc = "facets", !.i = 1]
    /\ UNCHANGED <<fp, vec, geo, lb, cube, ring, sph, be, bc, it, rep>>

\* write_stl: one turn of the loop, write_facet(output, f)?, and Ok(()) after
\* the last facet
WriteFacet ==
    /\ stl.pc = "facets"
    /\ \E r \in {write_facet(stl.output, stl.solid.facets[stl.i])} :
           stl' = IF r.panic
                  THEN [stl EXCEPT !.pc = "done", !.result = "panic"]
                  ELSE IF stl.i = Len(stl.solid.facets)
                  THEN [stl EXCEPT !.output = r.output, !.pc = "done", !.result = "Ok"]
                  ELSE [stl EXCEPT !.output = r.output, !.i = stl.i + 1]
    /\ UNCHANGED <<fp, vec, geo, lb, cube, ring, sph, be, bc, it, rep>>

-----------------------------------------------------------------------------
(* Iterators over Size and Angle: src/geometry/size_iterator.rs.
   src/geometry/angle_iterator.rs is the same text with Angle for Size. *)

\* ranges and steps are drawn in units of half the tolerance: the distances
\* from start to end are -SmallUnits..SmallUnits units and a few long ones,
\* the steps are up to SmallUnits - 1 units and a few long ones
SmallUnits == 4
\* next and next_back are called at most MaxNone times after the end, and
\* next of an unbounded iterator at most MaxNone times
MaxNone == 2
\* a producer is split at most MaxSplits times
MaxSplits == 2

\* impl Ord for Size: self < other, self > other
Size_lt(self, other) == rough_lt(self, other)
Size_gt(self, other) == rough_lt(other, self)

size_count_inclusive_as_exclusive(start, end, step) ==
    IF Size_lt(start, end)
    THEN IF Size_lt(step, Size_ZERO) THEN 0
         ELSE as_usize(QDiv(QSub(QSub(end, FLOAT_POINT_ALLOWABLE_ERROR), start),
                            step)) + 1
    ELSE IF Size_gt(step, Size_ZERO) THEN 0
         ELSE as_usize(QDiv(QSub(QAdd(end, FLOAT_POINT_ALLOWABLE_ERROR), start),
                            step)) + 1

\* size_count_inclusive: the number of sizes of start..=end
size_count_inclusive(start, end, step) ==
    IF Size_lt(start, end)
    THEN IF Size_lt(step, Size_ZERO) THEN 0
         ELSE as_usize(QDiv(QSub(QAdd(end, FLOAT_POINT_ALLOWABLE_ERROR), start),
                            step)) + 1
    ELSE IF Size_gt(step, Size_ZERO) THEN 0
         ELSE as_usize(QDiv(QSub(QSub(end, FLOAT_POINT_ALLOWABLE_ERROR), start),
                            step)) + 1

\* size_count: the number of sizes of start..end
size_count(start, end, step) ==
    IF Size_lt(start, end)
    THEN IF Size_lt(step, Size_ZERO) THEN 0
         ELSE as_usize(QDiv(QSub(QSub(end, FLOAT_POINT_ALLOWABLE_ERROR), start),
                            step)) + 1
    ELSE IF Size_gt(step, Size_ZERO) THEN 0
         ELSE as_usize(QDiv(QSub(QAdd(end, FLOAT_POINT_ALLOWABLE_ERROR), start),
                            step)) + 1

\* SizeIterator::new
SizeIterator_new(start, step, len) ==
    [next_left |-> start, next_left_index |-> 0,
     next_right |-> QAdd(start, QMul(step, I(len - 1))),
     next_right_index |-> len - 1, step |-> step, len |-> len]

\* SizeIteratorBuilder<Range<Size>>::step and <RangeInclusive<Size>>::step
SizeIteratorBuilder_step(range, step) ==
    SizeIterator_new(range.start, step,
                     IF range.inclusive
                     THEN size_count_inclusive(range.start, range.end, step)
                     ELSE size_count(range.start, range.end, step))

\* Option<Size>: None is <<>>, Some(x) is <<x>>
None == <<>>
Some(x) == <<x>>

\* Iterator::next of SizeIterator: the value returned and the iterator after
SizeIterator_next(self) ==
    IF self.next_left_index > self.next_right_index
    THEN [out |-> None, iter |-> self]
    ELSE [out |-> Some(self.next_left),
          iter |-> [self EXCEPT !.next_left_index = self.next_left_index + 1,
                                !.next_left = QAdd(self.next_left, self.step)]]

SizeIterator_next_back_unchecked(self) ==
    [out |-> Some(self.next_right),
     iter |-> [self EXCEPT !.next_right_index = self.next_right_index - 1,
                           !.next_right = QSub(self.next_right, self.step)]]

\* DoubleEndedIterator::next_back of SizeIterator
SizeIterator_next_back(self) ==
    IF self.next_right_index < self.next_left_index
    THEN [out |-> None, iter |-> self]
    ELSE [out |-> Some(self.next_right),
          iter |-> [self EXCEPT !.next_right_index = self.next_right_index - 1,
                                !.next_right = QSub(self.next_right, self.step)]]

\* Iterator::size_hint of SizeIterator: (remain_size, Some(remain_size))
SizeIterator_size_hint(self) ==
    LET remain_size == self.len - self.next_left_index
    IN  <<remain_size, Some(remain_size)>>

\* SizeIteratorBuilder<RangeFrom<Size>>::step, SizeIteratorInfinite::new
SizeIteratorInfinite_new(start, step) == [next |-> start, step |-> step]

\* Iterator::next of SizeIteratorInfinite
SizeIteratorInfinite_next(self) ==
    [out |-> Some(self.next), iter |-> [self EXCEPT !.next = QAdd(self.next, self.step)]]

\* Iterator::size_hint of SizeIteratorInfinite: (usize::MAX, None)
SizeIteratorInfinite_size_hint(self) == <<"usize::MAX", None>>

\* SizeParallelIteratorBuilder::step and with_producer: the producer
SizeIterProducer_new(range, step) ==
    [start |-> range.start, step |-> step,
     len |-> IF range.inclusive
             THEN size_count_inclusive(range.start, range.end, step)
             ELSE size_count(range.start, range.end, step)]

SizeIterProducer_split_at_same_start(self, index) ==
    <<[start |-> self.start, step |-> self.step, len |-> index],
      [start |-> self.start, step |-> self.step, len |-> self.len - index]>>

\* Producer::split_at
SizeIterProducer_split_at(self, index) ==
    <<[start |-> self.start, step |-> self.step, len |-> index],
      [start |-> QAdd(self.start, QMul(self.step, I(index))), step |-> self.step,
       len |-> self.len - index]>>

\* Producer::into_iter
SizeIterProducer_into_iter(self) == SizeIterator_new(self.start, self.step, self.len)

\* Iterator::next called until it returns None: the values returned
RECURSIVE SizeIterator_collect(_)
SizeIterator_collect(self) ==
    IF SizeIterator_next(self).out = None THEN <<>>
    ELSE SizeIterator_next(self).out \o SizeIterator_collect(SizeIterator_next(self).iter)

\* half the tolerance
HalfEps == Q(1, 2 * EpsDen)

\* the distances from start to end and the steps, in units of HalfEps: short
\* ones around the tolerance (2 units) and long ones; step 0 is left out
DistUnits == ((-SmallUnits)..SmallUnits) \cup {-33, -32, -31, 31, 32, 33}
StepUnits == (((1 - SmallUnits)..(SmallUnits - 1)) \ {0}) \cup {-16, 16}

ItRanges ==
    {[start |-> I(1), end |-> QAdd(I(1), QMul(I(d), HalfEps)), inclusive |-> b] :
        d \in DistUnits, b \in BOOLEAN}

NoIter == [len |-> 0]

\* op: "iterate" (start..end and start..=end), "from" (start..) or "par"
\* (par_iterate); front and back: the values next and next_back returned;
\* nones: the calls that returned None; late: a value was returned after a
\* None; producers: the producers of the parallel iterator, in index order
ItIdle ==
    [op |-> "none", range |-> [start |-> I(0), end |-> I(0), inclusive |-> FALSE],
     step |-> I(1), pc |-> "done", iter |-> NoIter, front |-> <<>>, back |-> <<>>,
     nones |-> 0, late |-> FALSE, producers |-> <<>>, splits |-> 0, out |-> <<>>]

ItInputs ==
    {[ItIdle EXCEPT !.op = o, !.range = r, !.step = QMul(I(s), HalfEps), !.pc = "range"] :
        o \in {"iterate", "par"}, r \in ItRanges, s \in StepUnits}
    \cup
    {[ItIdle EXCEPT !.op = "from", !.range.start = I(1), !.step = QMul(I(s), HalfEps),
                    !.pc = "range"] : s \in StepUnits}

\* Size::iterate(start..end).step(step), Size::iterate(start..=end).step(step)
SizeIterate ==
    /\ it.pc = "range" /\ it.op = "iterate"
    /\ it' = [it EXCEPT !.pc = "iter", !.iter = SizeIteratorBuilder_step(it.range, it.step)]
    /\ UNCHANGED <<fp, vec, geo, lb, cube, ring, sph, be, bc, stl, rep>>

\* iter.next()
SizeNext ==
    /\ it.pc = "iter" /\ it.nones < MaxNone
    /\ \E r \in {SizeIterator_next(it.iter)} :
           it' = [it EXCEPT !.iter = r.iter,
                            !.front = @ \o r.out,
                            !.nones = IF r.out = None THEN @ + 1 ELSE @,
                            !.late = @ \/ (r.out # None /\ it.nones > 0)]
    /\ UNCHANGED <<fp, vec, geo, lb, cube, ring, sph, be, bc, stl, rep>>

\* iter.next_back()
SizeNextBack ==
    /\ it.pc = "iter" /\ it.nones < MaxNone
    /\ \E r \in {SizeIterator_next_back(it.iter)} :
           it' = [it EXCEPT !.iter = r.iter,
                            !.back = @ \o r.out,
                            !.nones = IF r.out = None THEN @ + 1 ELSE @,
                            !.late = @ \/ (r.out # None /\ it.nones > 0)]
    /\ UNCHANGED <<fp, vec, geo, lb, cube, ring, sph, be, bc, stl, rep>>

\* Size::iterate(start..).step(step)
SizeIterateFrom ==
    /\ it.pc = "range" /\ it.op = "from" /\ ~it.range.inclusive
    /\ it' = [it EXCEPT !.pc = "infinite",
                        !.iter = SizeIteratorInfinite_new(it.range.start, it.step)]
    /\ UNCHANGED <<fp, vec, geo, lb, cube, ring, sph, be, bc, stl, rep>>

\* iter.next() of the unbounded iterator
SizeInfiniteNext ==
    /\ it.pc = "infinite" /\ Len(it.front) < MaxNone
    /\ \E r \in {SizeIteratorInfinite_next(it.iter)} :
           it' = [it EXCEPT !.iter = r.iter, !.front = @ \o r.out]
    /\ UNCHANGED <<fp, vec, geo, lb, cube, ring, sph, be, bc, stl, rep>>

\* Size::par_iterate(range).step(step) and with_producer
SizeParIterate ==
    /\ it.pc = "range" /\ it.op = "par"
    /\ it' = [it EXCEPT !.pc = "par",
                        !.producers = <<SizeIterProducer_new(it.range, it.step)>>]
    /\ UNCHANGED <<fp, vec, geo, lb, cube, ring, sph, be, bc, stl, rep>>

\* the bridge splits one of the producers
SizeSplitAt ==
    /\ it.pc = "par" /\ it.splits < MaxSplits
    /\ \E j \in 1..Len(it.producers) : \E index \in 0..it.producers[j].len :
           it' = [it EXCEPT
                     !.producers = SubSeq(@, 1, j - 1)
                                      \o SizeIterProducer_split_at(@[j], index)
                                      \o SubSeq(@, j + 1, Len(@)),
                     !.splits = @ + 1]
    /\ UNCHANGED <<fp, vec, geo, lb, cube, ring, sph, be, bc, stl, rep>>

\* the bridge folds every producer through into_iter and joins the results
\* in index order
SizeParCollect ==
    /\ it.pc = "par"
    /\ it' = [it EXCEPT
                 !.pc = "collected",
                 !.out = flatten([j \in 1..Len(it.producers) |->
                             SizeIterator_collect(
                                 SizeIterProducer_into_iter(it.producers[j]))])]
    /\ UNCHANGED <<fp, vec, geo, lb, cube, ring, sph, be, bc, stl, rep>>

-----------------------------------------------------------------------------
(* The replication step of the sphere: copy_elements and the parallel
   for_each of src/solid/primitive/sphere.rs *)

\* the COUNT of copy_elements::<_, 7>: the replicas added to the octant
COUNT == 7
\* the smallest capacity a growing Vec<Facet> allocates
MinNonZeroCap == 4

\* a cell of the allocation that holds no facet yet
Uninit == <<>>

\* a Vec<Facet> is [buf, len]: buf has one cell per unit of capacity
Vec_capacity(v) == Len(v.buf)

\* Vec::reserve: nothing when the spare capacity suffices, else the
\* amortised growth to max(2 * capacity, len + additional)
Vec_reserve(v, additional) ==
    IF Vec_capacity(v) - v.len >= additional THEN v
    ELSE LET required == v.len + additional
             doubled == 2 * Vec_capacity(v)
             grown == IF doubled > required THEN doubled ELSE required
             cap == IF grown > MinNonZeroCap THEN grown ELSE MinNonZeroCap
         IN  [v EXCEPT !.buf = [k \in 1..cap |->
                                   IF k <= v.len THEN v.buf[k] ELSE Uninit]]

\* the slices with every start at add(i)
copy_elements_slices_by_index(len) ==
    [i \in 1..(COUNT + 1) |-> [start |-> i - 1, len |-> len]]

\* array::from_fn(|i| slice::from_raw_parts_mut(vec.as_mut_ptr().add(i * len), len)):
\* slice i (1..COUNT + 1 here, 0..COUNT in the code) as offset and length
copy_elements_slices(len) ==
    [i \in 1..(COUNT + 1) |-> [start |-> (i - 1) * len, len |-> len]]

\* ptr::copy_nonoverlapping(src, dest, len) for the slices from..COUNT + 1 in turn
RECURSIVE copy_slices(_, _, _)
copy_slices(buf, slices, from) ==
    IF from > Len(slices) THEN buf
    ELSE LET src == slices[1]
             dest == slices[from]
             copied == [k \in 1..Len(buf) |->
                          IF k - 1 >= dest.start /\ k - 1 < dest.start + dest.len
                          THEN buf[src.start + (k - 1 - dest.start) + 1]
                          ELSE buf[k]]
         IN  copy_slices(copied, slices, from + 1)

\* copy_elements: the vector after reserve, set_len and the copies, and the slices
copy_elements(v) ==
    LET len == v.len
        reserved == Vec_reserve(v, len * COUNT)
        slices == copy_elements_slices(len)
    IN  [vec |-> [buf |-> copy_slices(reserved.buf, slices, 2),
                  len |-> len * (COUNT + 1)],
         slices |-> slices]

\* the items of enumerate().flat_map(..): <<i, j>> is element j of slice i
Replica_tasks(slices) ==
    UNION {{<<i, j>> : j \in 0..(slices[i + 1].len - 1)} : i \in 0..COUNT}

\* the cell of the allocation that &mut slices[i][j] refers to
Replica_slot(slices, t) == slices[t[1] + 1].start + t[2] + 1

\* two facets of an octant: x >= 0, y <= 0, z >= 0
RepFacetA == <<<<I(0), I(0), I(1)>>, <<I(0), I(-1), I(0)>>, <<I(1), I(0), I(0)>>>>
RepFacetB == <<<<I(0), I(0), I(2)>>, <<I(1), I(-1), I(0)>>, <<I(2), I(0), I(1)>>>>
RepOctants == {<<RepFacetA>>, <<RepFacetA, RepFacetB>>}

\* the capacities collect() can leave: exact, one spare cell, or room for all
RepCapacities(len) == {len, len + 1, len * (COUNT + 1)}

RepIdle ==
    [pc |-> "none", location |-> Location_default, octant |-> <<>>,
     vec |-> [buf |-> <<>>, len |-> 0], slices |-> <<>>, pending |-> {},
     touched |-> <<>>, facets |-> <<>>]

RepInputs ==
    UNION {{[pc |-> "collected", location |-> l, octant |-> o,
             vec |-> [buf |-> [k \in 1..c |-> IF k <= Len(o) THEN o[k] ELSE Uninit],
                      len |-> Len(o)],
             slices |-> <<>>, pending |-> {}, touched |-> <<>>, facets |-> <<>>] :
               l \in {r \in RingLocations : r.right_vector = X_UNIT_VECTOR},
               c \in RepCapacities(Len(o))} : o \in RepOctants}

\* copy_elements::<_, 7>(&mut facets): the eight slices handed to the pool
CopyElements ==
    /\ rep.pc = "collected"
    /\ \E r \in {copy_elements(rep.vec)} :
           rep' = [rep EXCEPT
                      !.pc = "for_each",
                      !.vec = r.vec,
                      !.slices = r.slices,
                      !.pending = Replica_tasks(r.slices),
                      !.touched = [k \in 1..Vec_capacity(r.vec) |-> {}]]
    /\ UNCHANGED <<fp, vec, geo, lb, cube, ring, sph, be, bc, stl, it>>

\* one call of the for_each closure, on any item not yet taken: the pool runs
\* the items in any order; the closure reads and writes its own &mut Facet only
ForEachTask ==
    /\ rep.pc = "for_each"
    /\ \E t \in rep.pending :
           \E slot \in {Replica_slot(rep.slices, t)} :
               rep' = [rep EXCEPT
                          !.pending = @ \ {t},
                          !.touched[slot] = @ \cup {t},
                          !.vec.buf[slot] =
                              Sphere_replica_facet(@, t[1], rep.location)]
    /\ UNCHANGED <<fp, vec, geo, lb, cube, ring, sph, be, bc, stl, it>>

\* StlSolid { facets } once the for_each has joined
ReplicaReturn ==
    /\ rep.pc = "for_each" /\ rep.pending = {}
    /\ rep' = [rep EXCEPT !.pc = "done",
                          !.facets = SubSeq(rep.vec.buf, 1, rep.vec.len)]
    /\ UNCHANGED <<fp, vec, geo, lb, cube, ring, sph, be, bc, stl, it>>

-----------------------------------------------------------------------------
(* Specifications *)

\* tolerant equality of f64 values
InitEq ==
    /\ fp \in FpInputs
    /\ vec = VecIdle /\ geo = GeoIdle /\ lb = LbIdle /\ cube = CubeIdle
    /\ ring = RingIdle
    /\ sph = SphIdle
    /\ be = BeIdle
    /\ bc = BcIdle
    /\ stl = StlIdle
    /\ it = ItIdle
    /\ rep = RepIdle
NextEq == EqCompare \/ EqPlusHalfEps \/ EqPlusTwoEps
SpecEq == InitEq /\ [][NextEq]_vars

\* vector algebra
InitVec ==
    /\ vec \in VecInputs
    /\ fp = FpIdle /\ geo = GeoIdle /\ lb = LbIdle /\ cube = CubeIdle
    /\ ring = RingIdle
    /\ sph = SphIdle
    /\ be = BeIdle
    /\ bc = BcIdle
    /\ stl = StlIdle
    /\ it = ItIdle
    /\ rep = RepIdle
NextVec == ToUnitVector \/ Rotated
SpecVec == InitVec /\ [][NextVec]_vars

\* lines and planes
InitGeo ==
    /\ GeoInputs(geo)
    /\ fp = FpIdle /\ vec = VecIdle /\ lb = LbIdle /\ cube = CubeIdle
    /\ ring = RingIdle
    /\ sph = SphIdle
    /\ be = BeIdle
    /\ bc = BcIdle
    /\ stl = StlIdle
    /\ it = ItIdle
    /\ rep = RepIdle
NextGeo == IntersectPlanes \/ IntersectPlaneLine \/ CompareLines \/ ComparePlanes
SpecGeo == InitGeo /\ [][NextGeo]_vars

\* locations and their builder
InitLoc ==
    /\ lb \in LbInputs
    /\ fp = FpIdle /\ vec = VecIdle /\ geo = GeoIdle /\ cube = CubeIdle
    /\ ring = RingIdle
    /\ sph = SphIdle
    /\ be = BeIdle
    /\ bc = BcIdle
    /\ stl = StlIdle
    /\ it = ItIdle
    /\ rep = RepIdle
NextLoc ==
    \/ LocDefault \/ LocBuild
    \/ GiveRight \/ GiveLeft \/ GiveBack \/ GiveFront \/ GiveTop \/ GiveBottom
    \/ RightThenBack \/ RightThenFront \/ RightThenTop \/ RightThenBottom
    \/ BackThenRight \/ BackThenLeft \/ BackThenTop \/ BackThenBottom
    \/ TopThenRight \/ TopThenLeft \/ TopThenBack \/ TopThenFront
    \/ LocTranslated \/ LocRotated
SpecLoc == InitLoc /\ [][NextLoc]_vars

\* the mesh of a cube
InitCube ==
    /\ cube \in CubeInputs
    /\ fp = FpIdle /\ vec = VecIdle /\ geo = GeoIdle /\ lb = LbIdle
    /\ ring = RingIdle
    /\ sph = SphIdle
    /\ be = BeIdle
    /\ bc = BcIdle
    /\ stl = StlIdle
    /\ it = ItIdle
    /\ rep = RepIdle
NextCube == GenerateStlSolid
SpecCube == InitCube /\ [][NextCube]_vars

\* the meshes of a cylinder and of a cone
InitRing ==
    /\ ring \in RingInputs
    /\ fp = FpIdle /\ vec = VecIdle /\ geo = GeoIdle /\ lb = LbIdle /\ cube = CubeIdle
    /\ sph = SphIdle
    /\ be = BeIdle
    /\ bc = BcIdle
    /\ stl = StlIdle
    /\ it = ItIdle
    /\ rep = RepIdle
NextRing == IterateStep \/ CylinderGenerate \/ ConeGenerate
SpecRing == InitRing /\ [][NextRing]_vars

\* the mesh of a sphere
InitSph ==
    /\ sph \in SphInputs
    /\ fp = FpIdle /\ vec = VecIdle /\ geo = GeoIdle /\ lb = LbIdle /\ cube = CubeIdle
    /\ ring = RingIdle
    /\ be = BeIdle
    /\ bc = BcIdle
    /\ stl = StlIdle
    /\ it = ItIdle
    /\ rep = RepIdle
NextSph == SphereGenerate
SpecSph == InitSph /\ [][NextSph]_vars

\* build environments and their scopes
InitEnv ==
    /\ be = BeIdle
    /\ fp = FpIdle /\ vec = VecIdle /\ geo = GeoIdle /\ lb = LbIdle /\ cube = CubeIdle
    /\ ring = RingIdle /\ sph = SphIdle
    /\ bc = BcIdle
    /\ stl = StlIdle
    /\ it = ItIdle
    /\ rep = RepIdle
NextEnv ==
    \/ NewEnv \/ MainRead \/ EnvEnter \/ EnvReturn \/ EnvPanic
    \/ ParEnter \/ WorkerRead \/ WorkerNewEnv \/ ParLeave
SpecEnv == InitEnv /\ [][NextEnv]_vars

\* parents built with BuildContext::build and <<=
InitBuild ==
    /\ bc = BcIdle
    /\ fp = FpIdle /\ vec = VecIdle /\ geo = GeoIdle /\ lb = LbIdle /\ cube = CubeIdle
    /\ ring = RingIdle /\ sph = SphIdle /\ be = BeIdle
    /\ stl = StlIdle
    /\ it = ItIdle
    /\ rep = RepIdle
NextBuild == Build \/ ShlAssignLeaf \/ BuildReturn \/ ShlAssignParent \/ Generate
SpecBuild == InitBuild /\ [][NextBuild]_vars

\* write_stl on the meshes and outputs above
InitStl ==
    /\ \E s \in StlSolids : \E o \in StlOutputs :
           stl = [solid |-> s, output |-> o, pc |-> "header", i |-> 0, result |-> "none"]
    /\ fp = FpIdle /\ vec = VecIdle /\ geo = GeoIdle /\ lb = LbIdle /\ cube = CubeIdle
    /\ ring = RingIdle /\ sph = SphIdle /\ be = BeIdle /\ bc = BcIdle
    /\ it = ItIdle
    /\ rep = RepIdle
NextStl == WriteHeader \/ WriteFacetsCount \/ WriteFacet
SpecStl == InitStl /\ [][NextStl]_vars

\* the iterators over Size
InitIt ==
    /\ it \in ItInputs
    /\ fp = FpIdle /\ vec = VecIdle /\ geo = GeoIdle /\ lb = LbIdle /\ cube = CubeIdle
    /\ ring = RingIdle /\ sph = SphIdle /\ be = BeIdle /\ bc = BcIdle /\ stl = StlIdle
    /\ rep = RepIdle
NextIt ==
    \/ SizeIterate \/ SizeNext \/ SizeNextBack
    \/ SizeIterateFrom \/ SizeInfiniteNext
    \/ SizeParIterate \/ SizeSplitAt \/ SizeParCollect
SpecIt == InitIt /\ [][NextIt]_vars

\* the replication step of the sphere under every order of its items
InitRep ==
    /\ rep \in RepInputs
    /\ fp = FpIdle /\ vec = VecIdle /\ geo = GeoIdle /\ lb = LbIdle /\ cube = CubeIdle
    /\ ring = RingIdle /\ sph = SphIdle
    /\ be = BeIdle
    /\ bc = BcIdle
    /\ stl = StlIdle
    /\ it = ItIdle
NextRep == CopyElements \/ ForEachTask \/ ReplicaReturn
SpecRep == InitRep /\ [][NextRep]_vars

-----------------------------------------------------------------------------
(* Claims *)

\* |a - b| < 1e-10 for the f64 values with offsets s and o in binade E:
\* |s - o| * 2^(E - 52) < 1 / (2^10 * 5^10)
WithinEps(E, s, o) == Abs(s - o) * FivePow10 < 2 ^ (EpsShift - E)

\* C1: for all Size/Angle values a and b, a == b holds iff |a - b| < 1e-10;
\* a + eps/2 compares equal to a and a + 2 eps compares unequal to a.
C1_EqIffWithinEps ==
    fp.done =>
        /\ fp.op = "eq" => (fp.res <=> WithinEps(fp.E, fp.s, fp.o))
        /\ fp.op = "half" => fp.res
        /\ fp.op = "two" => ~fp.res

\* a points the way b does: a = k * b for some k > 0
SameDirection(a, b) ==
    /\ vector_product(a, b) = Vector_ZERO
    /\ QLt(I(0), inner_product(a, b))

\* the norm of v is zero within the tolerance: |v|^2 < eps^2
NormIsRoughlyZero(v) ==
    QLt(NormSq(v), QMul(FLOAT_POINT_ALLOWABLE_ERROR, FLOAT_POINT_ALLOWABLE_ERROR))

\* C2 as stated: for every v, every non-zero axis and every angle, rotated
\* returns a vector of the norm of v, and X rotated 90 degrees about Z is Y.
C2_RotatedAnyNonZeroAxis ==
    (vec.done /\ vec.op = "rotated") =>
        /\ vec.axis # Vector_ZERO =>
              /\ ~vec.out.panic
              /\ NormSq(vec.out.val) = NormSq(vec.v)
        /\ (vec.v = X_UNIT_VECTOR /\ vec.axis = Z_UNIT_VECTOR /\ vec.angle = deg90) =>
              /\ ~vec.out.panic
              /\ Matrix_eq(vec.out.val, Y_UNIT_VECTOR)

\* C2 amended: for every v, every angle and every axis whose norm is not zero
\* within the tolerance, rotated returns a vector of the norm of v; an axis
\* whose norm is below the tolerance makes the call fail; the rotation is
\* right-handed: X rotated 90 degrees about Z is Y.
C2_RotatedKeepsNorm ==
    (vec.done /\ vec.op = "rotated") =>
        /\ vec.out.panic <=> NormIsRoughlyZero(vec.axis)
        /\ ~vec.out.panic => NormSq(vec.out.val) = NormSq(vec.v)
        /\ (vec.v = X_UNIT_VECTOR /\ vec.axis = Z_UNIT_VECTOR /\ vec.angle = deg90) =>
              /\ ~vec.out.panic
              /\ Matrix_eq(vec.out.val, Y_UNIT_VECTOR)

\* a rotation by a skew angle about a skew axis of length 3 that moves v
C2_Witness ==
    /\ vec.done /\ vec.op = "rotated" /\ ~vec.out.panic
    /\ vec.axis = <<I(1), I(2), I(2)>>
    /\ vec.angle = <<1, 1>>
    /\ vec.out.val # vec.v

\* C3 as stated: to_unit_vector panics on the zero vector, and for every
\* other vector returns v / |v|: norm 1 mm, pointing the way v does.
C3_UnitOfEveryNonZero ==
    (vec.done /\ vec.op = "to_unit_vector") =>
        IF vec.v = Vector_ZERO
        THEN vec.out.panic
        ELSE /\ ~vec.out.panic
             /\ Size_eq(norm(vec.out.val), I(1))
             /\ SameDirection(vec.out.val, vec.v)

\* C3 amended: to_unit_vector panics exactly when the norm is zero within
\* the tolerance (the zero vector included), and for every other vector
\* returns v / |v|: norm 1 mm, pointing the way v does.
C3_UnitOfNonTiny ==
    (vec.done /\ vec.op = "to_unit_vector") =>
        /\ vec.out.panic <=> NormIsRoughlyZero(vec.v)
        /\ vec.v = Vector_ZERO => vec.out.panic
        /\ ~vec.out.panic =>
              /\ Size_eq(norm(vec.out.val), I(1))
              /\ SameDirection(vec.out.val, vec.v)

\* a vector of norm 3 was normalised
C3_Witness ==
    /\ vec.done /\ vec.op = "to_unit_vector" /\ ~vec.out.panic
    /\ NormSq(vec.v) = I(9)

\* the point lies on the plane: (pt - plane.point) . normal = 0
OnPlane(pt, plane) ==
    inner_product(between(plane.point, pt), plane.normal_vector) = I(0)

\* the point lies on the line: (pt - line.point) x direction = 0
OnLine(pt, line) ==
    vector_product(between(line.point, pt), line.vector) = Vector_ZERO

\* every component is zero within the tolerance
AllRoughlyZero(v) == \A i \in 1..3 : Size_eq(v[i], Size_ZERO)

C5_PlaneMeetsLine ==
    (geo.done /\ geo.op = "plane_line") =>
        LET d == inner_product(geo.a.normal_vector, geo.b.vector)
            t == QDiv(inner_product(between(geo.b.point, geo.a.point),
                                    geo.a.normal_vector), d)
        IN  /\ geo.out.panic <=> rough_partial_eq(d, I(0))
            /\ ~geo.out.panic =>
                  /\ geo.out.val = Matrix_add(geo.b.point, Matrix_mul(geo.b.vector, t))
                  /\ OnPlane(geo.out.val, geo.a)
                  /\ OnLine(geo.out.val, geo.b)

\* a line that is not normal to the plane met it away from both given points
C5_Witness ==
    /\ geo.done /\ geo.op = "plane_line" /\ ~geo.out.panic
    /\ vector_product(geo.a.normal_vector, geo.b.vector) # Vector_ZERO
    /\ geo.out.val # geo.a.point /\ geo.out.val # geo.b.point

\* the point of the line (q, u) nearest the origin: q - ((q . u) / (u . u)) u
ClosestOfLine(l) ==
    Matrix_sub(l.point,
               Matrix_mul(l.vector, QDiv(inner_product(l.point, l.vector),
                                         NormSq(l.vector))))

\* the point of the plane (p, n) nearest the origin: ((p . n) / (n . n)) n
ClosestOfPlane(pl) ==
    Matrix_mul(pl.normal_vector,
               QDiv(inner_product(pl.point, pl.normal_vector),
                    NormSq(pl.normal_vector)))

\* the unit vectors of u and v are the same or opposite
SameOrOppositeUnit(u, v) == vector_product(u, v) = Vector_ZERO

\* C6: two Lines compare equal exactly when their unit directions are the same
\* or opposite and their points nearest the origin coincide, whatever the sign
\* and length of the direction and whichever point was given; Planes likewise
\* with the normal.
C6_EqualIffSameLine ==
    /\ (geo.done /\ geo.op = "line_eq") =>
          /\ ~geo.out.panic
          /\ geo.out.val <=>
                /\ SameOrOppositeUnit(geo.a.vector, geo.b.vector)
                /\ Matrix_eq(ClosestOfLine(geo.a), ClosestOfLine(geo.b))
    /\ (geo.done /\ geo.op = "plane_eq") =>
          /\ ~geo.out.panic
          /\ geo.out.val <=>
                /\ SameOrOppositeUnit(geo.a.normal_vector, geo.b.normal_vector)
                /\ Matrix_eq(ClosestOfPlane(geo.a), ClosestOfPlane(geo.b))

\* a second direction has been given to the builder
SecondGiven == lb.phase \in {"built", "panicked"} /\ lb.last = "build"

\* C7: a builder given two directions that are not orthogonal within the
\* tolerance panics and makes no Location, whichever two of the six names the
\* directions were given under and in whichever order.
C7_NonOrthogonalPanics ==
    SecondGiven =>
        LET first == FrameDir(lb.frame, lb.names[1])
            second == FrameDir(lb.frame, lb.names[2])
        IN  ~angle_with_is_90deg(first, second) => lb.phase = "panicked"

\* right, back and top are mutually orthogonal and top is parallel to
\* right x back, in the same sense
RightHandedFrame(frame) ==
    LET c == vector_product(frame[1], frame[2])
    IN  /\ inner_product(frame[1], frame[2]) = I(0)
        /\ inner_product(frame[2], frame[3]) = I(0)
        /\ inner_product(frame[3], frame[1]) = I(0)
        /\ vector_product(c, frame[3]) = Vector_ZERO
        /\ QLt(I(0), inner_product(c, frame[3]))

\* C8: for the directions of one right-handed orthogonal frame, each of the 24
\* ordered ways of giving the builder two directions on different axes yields
\* the same Location: the origin with the unit vectors of right and back; its
\* top_vector is right_vector x back_vector, the unit vector of top.
C8_AllWaysSameLocation ==
    (SecondGiven /\ RightHandedFrame(lb.frame)) =>
        /\ lb.phase = "built"
        /\ lb.loc = Ok([point |-> lb.origin,
                        right_vector |-> Matrix_div(lb.frame[1], norm(lb.frame[1])),
                        back_vector |-> Matrix_div(lb.frame[2], norm(lb.frame[2]))])
        /\ Location_top_vector(lb.loc.val) =
              vector_product(lb.loc.val.right_vector, lb.loc.val.back_vector)
        /\ Location_top_vector(lb.loc.val) =
              Matrix_div(lb.frame[3], norm(lb.frame[3]))

\* bottom then left were given for a frame that is oblique to the axes and
\* does not sit at the origin
C8_Witness ==
    /\ SecondGiven /\ RightHandedFrame(lb.frame) /\ lb.phase = "built"
    /\ lb.names = <<"bottom", "left">>
    /\ lb.frame[1] = <<I(1), I(2), I(2)>>
    /\ lb.origin # Point_ORIGIN

\* the vector is of unit length within the tolerance
UnitLength(v) == rough_partial_eq(NormSq(v), I(1))

\* C9: every Location reached from Location::default() or from the builder by
\* translated and rotated calls has right_vector and back_vector of unit length
\* and orthogonal within the tolerance, and all six accessors return unit
\* vectors; translated moves the point by the offset and changes nothing else.
C9_LocationInvariant ==
    lb.phase = "built" =>
        LET l == lb.loc.val
        IN  /\ NormSq(l.right_vector) = I(1)
            /\ NormSq(l.back_vector) = I(1)
            /\ rough_partial_eq(inner_product(l.right_vector, l.back_vector), I(0))
            /\ angle_with_is_90deg(l.right_vector, l.back_vector)
            /\ \A v \in {Location_left_vector(l), Location_right_vector(l),
                         Location_front_vector(l), Location_back_vector(l),
                         Location_bottom_vector(l), Location_top_vector(l)} :
                  UnitLength(v)
            /\ lb.last = "translated" =>
                  /\ l.right_vector = lb.prev.right_vector
                  /\ l.back_vector = lb.prev.back_vector
                  /\ l.point = Matrix_add(lb.prev.point, lb.offset)

\* a Location built with directions that are orthogonal only within the
\* tolerance was rotated and then translated
C9_Witness ==
    /\ lb.phase = "built" /\ lb.steps = 2 /\ lb.last = "translated"
    /\ Len(lb.names) = 2
    /\ inner_product(lb.loc.val.right_vector, lb.loc.val.back_vector) # I(0)
    /\ lb.loc.val.right_vector # lb.frame[1]

\* the corner of the box of the cube at <<a, b, c>>, each 0 or 1: the point
\* of the Location moved by a, b, c times the size along right, back and top
BoxCorner(self, idx) ==
    LET l == self.location
        top == Location_top_vector(l)
    IN  Matrix_add(
            Matrix_add(
                Matrix_add(l.point,
                           Matrix_mul(l.right_vector, QMul(I(idx[1]), self.size[1]))),
                Matrix_mul(l.back_vector, QMul(I(idx[2]), self.size[2]))),
            Matrix_mul(Matrix_div(top, norm(top)), QMul(I(idx[3]), self.size[3])))

BoxIdx == {<<a, b, c>> : a \in 0..1, b \in 0..1, c \in 0..1}

\* the six faces: the corners that agree in one coordinate
BoxFaces == {{idx \in BoxIdx : idx[k] = s} : k \in 1..3, s \in 0..1}

\* the corners of the box, by index
BoxCorners(self) == [idx \in BoxIdx |-> BoxCorner(self, idx)]

\* the corners that are vertexes of the facet
FacetIdx(corners, facet) ==
    {idx \in BoxIdx : \E i \in 1..3 : facet[i] = corners[idx]}

\* two corners of a face that are not joined by an edge
Opposite(i, j) == Cardinality({k \in 1..3 : i[k] # j[k]}) = 2

\* the normal of the facet is a unit vector that lies across every edge of
\* the face and points away from every corner outside the face
Outward(corners, facet, face) ==
    \E n \in {Facet_normal_vector(facet)} :
        /\ ~n.panic
        /\ NormSq(n.val) = I(1)
        /\ \E at \in {[idx \in BoxIdx |-> inner_product(corners[idx], n.val)]} :
              \A i \in face : \A j \in BoxIdx :
                 IF j \in face THEN at[i] = at[j] ELSE QLt(at[j], at[i])

\* C10: the mesh of a Cube with positive sizes has exactly 12 facets, two for
\* each face of the box; the three vertexes of a facet are three corners of its
\* face, the two facets of a face leave out opposite corners and so cover the
\* face, and the normal of every facet points out of the box.
C10_CubeFacets ==
    (cube.done /\ cube.op = "generate_stl_solid") =>
        \E corners \in {BoxCorners(cube.self)} :
        \E verts \in {[k \in 1..Len(cube.facets) |->
                          FacetIdx(corners, cube.facets[k])]} :
            /\ Len(cube.facets) = 12
            /\ \A k \in 1..12 :
                  /\ Cardinality(verts[k]) = 3
                  /\ \E face \in BoxFaces :
                        /\ verts[k] \subseteq face
                        /\ Outward(corners, cube.facets[k], face)
            /\ \A face \in BoxFaces :
                  \E on \in {{k \in 1..12 : verts[k] \subseteq face}} :
                      /\ Cardinality(on) = 2
                      /\ \A k1 \in on : \A k2 \in on \ {k1} :
                            \E i \in face : \E j \in face :
                               /\ face \ verts[k1] = {i}
                               /\ face \ verts[k2] = {j}
                               /\ Opposite(i, j)

\* the mesh of a cube with unequal sizes whose Location is oblique to the
\* axes and away from the origin
C10_Witness ==
    /\ cube.done /\ cube.op = "generate_stl_solid" /\ Len(cube.facets) = 12
    /\ cube.self.location.right_vector = <<Q(1, 3), Q(2, 3), Q(2, 3)>>
    /\ cube.self.location.point # Point_ORIGIN
    /\ cube.self.size = <<I(1), I(2), I(1)>>

-----------------------------------------------------------------------------
(* Claims on the cylinder and cone meshes *)

\* the least integer not below the rational x
QCeil(x) == -((-x[1]) \div x[2])

\* ceil(360 deg / s)
FragmentCount(s) == QCeil(QDiv(Angle_to_radian(deg360), Angle_to_radian(s)))

\* the facets each ring point contributes
FacetsPerPoint(op) == IF op = "cylinder" THEN 4 ELSE 2

\* the last multiple of s below 360 deg is less than the tolerance below it
LastMultipleNearEnd(s) ==
    LET last == QMul(I(FragmentCount(s) - 1), Angle_to_radian(s))
    IN  ~QLt(last, QSub(Angle_to_radian(deg360), FLOAT_POINT_ALLOWABLE_ERROR))

FacetEdges(f) == {<<f[1], f[2]>>, <<f[2], f[3]>>, <<f[3], f[1]>>}

\* the number of facets of the mesh that hold the directed edge e
EdgeUses(facets, e) ==
    Cardinality({i \in 1..Len(facets) : e \in FacetEdges(facets[i])})

\* C12: for a ring of N >= 3 points the cylinder and cone meshes are closed
\* and consistently wound: every directed edge of a facet is in exactly one
\* facet, and so is its reverse
C12_ClosedAndWound ==
    (/\ ring.done /\ ring.op \in {"cylinder", "cone"}
     /\ angle_count(Angle_ZERO, deg360, ring.minimum_angle) >= 3)
    => \A i \in 1..Len(ring.facets) :
           /\ Cardinality(FacetEdges(ring.facets[i])) = 3
           /\ \A e \in FacetEdges(ring.facets[i]) :
                  /\ EdgeUses(ring.facets, e) = 1
                  /\ EdgeUses(ring.facets, <<e[2], e[1]>>) = 1

\* a cone on a ring of 7 points
C12_Witness ==
    /\ ring.done /\ ring.op = "cone"
    /\ angle_count(Angle_ZERO, deg360, ring.minimum_angle) = 7
    /\ Len(ring.facets) = 14

-----------------------------------------------------------------------------
(* Claims on the sphere mesh *)

\* the normal of facet f, not normalised
FacetCross(f) == vector_product(between(f[1], f[2]), between(f[2], f[3]))

\* the square of x fits the integers
SquareFits(x) == Abs(x[1]) <= 46340 /\ x[2] <= 46340

\* the angle between n and e is below a right angle, and below the angle
\* step when step is less than a quarter turn (the comparison of the squared
\* cosines is made where the squares fit the integers)
WithinStepOf(n, e, step) ==
    \E d \in {inner_product(n, e)} :
        /\ QLt(I(0), d)
        /\ (Angle_lt(step, deg90) /\ SquareFits(d) /\ SquareFits(cos(step))
            /\ SquareFits(NormSq(n)) /\ SquareFits(NormSq(e)))
           => QLt(QMul(QMul(cos(step), cos(step)), QMul(NormSq(n), NormSq(e))),
                  QMul(d, d))

OctantPoint(r, yz, zx) ==
    <<QMul(r, QMul(cos(yz), sin(zx))),
      QNeg(QMul(r, sin(yz))),
      QMul(r, QMul(cos(yz), cos(zx)))>>

\* the i-th angle of the grid (1..n) and the one after it
GridAngle(step, i) == <<(i - 1) * step[1], (i - 1) * step[2]>>
GridNext(step, n, i) == IF i = n THEN deg90 ELSE GridAngle(step, i + 1)

\* ceil(90 deg / step)
OctantCount(step) == QCeil(QDiv(Angle_to_radian(deg90), Angle_to_radian(step)))

\* the rows of the grid: ceil(90 deg / step), or one less when the last
\* multiple of step below 90 deg is less than the tolerance below it
OctantRows(step) ==
    IF ~QLt(QMul(I(OctantCount(step) - 1), Angle_to_radian(step)),
            QSub(Angle_to_radian(deg90), FLOAT_POINT_ALLOWABLE_ERROR))
    THEN OctantCount(step) - 1 ELSE OctantCount(step)

\* no two vertexes of facet f coincide
ThreeVertexes(f) == f[1] # f[2] /\ f[2] # f[3] /\ f[3] # f[1]

ExpectedCell(r, step, n, i, j) ==
    LET aa == OctantPoint(r, GridAngle(step, i), GridAngle(step, j))
        ab == OctantPoint(r, GridAngle(step, i), GridNext(step, n, j))
        ba == OctantPoint(r, GridNext(step, n, i), GridAngle(step, j))
        bb == OctantPoint(r, GridNext(step, n, i), GridNext(step, n, j))
    IN  IF \A c \in 1..3 : rough_partial_eq(ba[c], bb[c])
        THEN <<<<aa, ba, ab>>>>
        ELSE <<<<aa, ba, ab>>, <<bb, ab, ba>>>>

C15_EightReplicas ==
    sph.done =>
        /\ Len(sph.facets) = 8 * Len(sph.octant)
        /\ \A i \in 0..7 : \A k \in 1..Len(sph.octant) :
               LET f == sph.octant[k]
                   g == sph.facets[i * Len(sph.octant) + k]
                   bits == <<i % 2, (i \div 2) % 2, (i \div 4) % 2>>
                   from == IF (bits[1] + bits[2] + bits[3]) % 2 = 1
                           THEN <<1, 3, 2>> ELSE <<1, 2, 3>>
               IN  \A v \in 1..3 : \A c \in 1..3 :
                       g[v][c] = QAdd(IF bits[c] = 1 THEN QNeg(f[from[v]][c])
                                      ELSE f[from[v]][c],
                                      sph.location.point[c])

\* a sphere of 8 * 15 facets at a Location away from the origin
C15_Witness ==
    /\ sph.done /\ sph.location.point = <<I(1), I(2), I(3)>>
    /\ Len(sph.octant) = 15 /\ Len(sph.facets) = 120

\* C16 as stated: before the mirroring every vertex of the octant has
\* x >= 0, y >= 0 and z >= 0
C16_OctantPositive ==
    sph.done =>
        \A k \in 1..Len(sph.octant) : \A v \in 1..3 : \A c \in 1..3 :
            sph.octant[k][v][c][1] >= 0

\* C16 amended: before the mirroring every vertex of the octant has
\* x >= 0, y <= 0 and z >= 0
C16_OctantNegativeY ==
    sph.done =>
        \A k \in 1..Len(sph.octant) : \A v \in 1..3 :
            /\ sph.octant[k][v][1][1] >= 0
            /\ sph.octant[k][v][2][1] <= 0
            /\ sph.octant[k][v][3][1] >= 0

\* an octant with a vertex whose y is negative
C16_Witness ==
    /\ sph.done /\ Len(sph.octant) = 6
    /\ \E k \in 1..Len(sph.octant) : \E v \in 1..3 : sph.octant[k][v][2][1] < 0

-----------------------------------------------------------------------------
(* Claims on the build environments *)

\* the value environment e has by the scopes entered and not yet left: the
\* value of the innermost scope of e, or the default of e
ScopedValue(b, e) ==
    LET scopes == {i \in 1..Len(b.stack) : b.stack[i].env = e}
    IN  IF scopes = {} THEN b.envs[e].default
        ELSE b.stack[CHOOSE i \in scopes : \A j \in scopes : j <= i].value

\* C17: env(e, v, action) makes v the value read from e everywhere inside
\* action, nested env calls on other environments included, leaves the other
\* environments unchanged and restores the prior value of e on return; after
\* any properly nested sequence every environment reads its default.  Stated
\* for the runs in which no action panics.
C17_ReadsFollowScopes ==
    ~be.panicked =>
        \A e \in 1..Len(be.envs) :
            BuildEnv_deref(be, "main", e) = ScopedValue(be, e)

\* C18: the prior value is restored whenever an env scope is left, also when
\* the action panics
C18_RestoredOnPanic ==
    [][(~be.panicked /\ be'.panicked) =>
           BuildEnv_deref(be', "main", be.stack[Len(be.stack)].env)
               = be.stack[Len(be.stack)].old_value]_vars

\* C19: a read of an environment by a worker thread of a parallel region
\* inside an env scope returns the value in effect where the region was
\* entered, not the default nor the value of an unrelated caller
C19_WorkerReadsEntered ==
    (be.stack # <<>> /\ be.worker_read # <<>>) =>
        be.worker_read[2] = be.region.entered[be.worker_read[1]]


\* the point v a quarter turn further round the line through c along the z
\* axis, counter-clockwise seen from +z
QuarterTurnZ(c, v) ==
    <<QSub(c[1], QSub(v[2], c[2])), QAdd(c[2], QSub(v[1], c[1])), v[3]>>

\* the transform of parent applied to the point v
Transformed(parent, v) ==
    IF parent.kind = "Translate"
    THEN <<QAdd(v[1], parent.offset[1]), QAdd(v[2], parent.offset[2]),
           QAdd(v[3], parent.offset[3])>>
    ELSE QuarterTurnZ(parent.axis.point, v)

TransformedFacets(parent, facets) ==
    [i \in 1..Len(facets) |-> [k \in 1..3 |-> Transformed(parent, facets[i][k])]]

\* the mesh the calls from the i-th on describe: open holds, for each build
\* still running, its parent and the facets pushed to it so far; built is the
\* mesh of the build that returned last
RECURSIVE Replay(_, _, _, _)
Replay(calls, i, open, built) ==
    IF i > Len(calls) THEN built
    ELSE LET c == calls[i]
             n == Len(open)
         IN  CASE c.call = "build" ->
                      Replay(calls, i + 1,
                             Append(open, [parent |-> c.parent, facets |-> <<>>]), built)
               [] c.call = "leaf" ->
                      Replay(calls, i + 1,
                             [open EXCEPT ![n].facets = Append(@, c.facet)], built)
               [] c.call = "return" ->
                      Replay(calls, i + 1, SubSeq(open, 1, n - 1),
                             TransformedFacets(open[n].parent, open[n].facets))
               [] c.call = "push" ->
                      Replay(calls, i + 1, [open EXCEPT ![n].facets = @ \o built], <<>>)

-----------------------------------------------------------------------------
(* Claims on the STL output *)

\* the 12 values of a facet: the unit normal and the three vertexes
FacetValues(f) ==
    Facet_normal_vector(f).val \o f[1] \o f[2] \o f[3]

\* the 50 bytes of a facet
FacetBytes(f) ==
    flatten([k \in 1..12 |-> f32_to_le_bytes(as_f32(FacetValues(f)[k]))]) \o <<0, 0>>

\* the file of a mesh: 80 header bytes, the count, the facets in mesh order
StlFile(solid) ==
    [i \in 1..80 |-> 0] \o u32_to_le_bytes(solid.len)
        \o flatten([i \in 1..Len(solid.facets) |-> FacetBytes(solid.facets[i])])

\* C21: for a mesh of N <= 2^32 - 1 facets write_stl delivers to the output
\* 80 header bytes, N as a little-endian u32 and 50 bytes a facet (12
\* little-endian f32 values and 2 zero bytes), 84 + 50 N bytes in all; for a
\* larger N it returns TooManyFacets.  (A run the output ended with an error
\* is left aside.)
C21_StlBytes ==
    (stl.pc = "done" /\ stl.result \notin {"none", "WriteZero"}) =>
        IF usize_gt(stl.solid.len, u32_MAX)
        THEN stl.result = "TooManyFacets"
        ELSE /\ stl.result = "Ok"
             /\ stl.output.bytes = StlFile(stl.solid)
             /\ Len(stl.output.bytes) = 84 + 50 * Len(stl.solid.facets)


-----------------------------------------------------------------------------
(* Claims on the iterators *)

Size_ne(a, b) == ~Size_eq(a, b)

\* the step points from start away from end
PointsAway(range, step) ==
    \/ QLt(range.start, range.end) /\ QLt(step, Size_ZERO)
    \/ QLt(range.end, range.start) /\ QLt(Size_ZERO, step)

\* t is not beyond end, or is end within the tolerance
NotBeyond(range, t) ==
    \/ Size_eq(t, range.end)
    \/ IF QLt(range.start, range.end) THEN QLt(t, range.end) ELSE QLt(range.end, t)

\* t is not beyond end, or is end up to the tolerance
NotBeyondUpTo(range, t) ==
    IF QLt(range.start, range.end)
    THEN ~QLt(QAdd(range.end, FLOAT_POINT_ALLOWABLE_ERROR), t)
    ELSE ~QLt(t, QSub(range.end, FLOAT_POINT_ALLOWABLE_ERROR))

\* start, start + step, ... while the term is not beyond end
RECURSIVE TermsNotBeyond(_, _, _)
TermsNotBeyond(range, step, t) ==
    IF NotBeyond(range, t)
    THEN <<t>> \o TermsNotBeyond(range, step, QAdd(t, step))
    ELSE <<>>

RECURSIVE TermsNotBeyondUpTo(_, _, _)
TermsNotBeyondUpTo(range, step, t) ==
    IF NotBeyondUpTo(range, t)
    THEN <<t>> \o TermsNotBeyondUpTo(range, step, QAdd(t, step))
    ELSE <<>>

\* the terms of seq that are not end within the tolerance
RECURSIVE WithoutEnd(_, _)
WithoutEnd(seq, end) ==
    IF seq = <<>> THEN <<>>
    ELSE (IF Size_eq(Head(seq), end) THEN <<>> ELSE <<Head(seq)>>)
             \o WithoutEnd(Tail(seq), end)

\* next was called until it returned None, and next_back never
Collected == it.pc = "iter" /\ it.back = <<>> /\ it.nones > 0

\* C22 as stated: for start != end and a step that is not zero, start..=end
\* yields start, start + step, ... up to the last term not beyond end (end
\* itself when reached within the tolerance), start..end yields the same
\* terms except a term equal to end, and both yield nothing when the sign
\* of the step points away from end.
C22_TermsUpToEnd ==
    (Collected /\ Size_ne(it.range.start, it.range.end)) =>
        it.front =
            IF PointsAway(it.range, it.step) THEN <<>>
            ELSE IF it.range.inclusive
            THEN TermsNotBeyond(it.range, it.step, it.range.start)
            ELSE WithoutEnd(TermsNotBeyond(it.range, it.step, it.range.start),
                            it.range.end)

\* C22, amended: the same for steps that point to end, where a term exactly
\* the tolerance beyond end is still yielded by start..=end; a step that
\* points away from end yields nothing when it is the tolerance or more, and
\* yields start alone when it is less than the tolerance.
C22_TermsWithinTolerance ==
    (Collected /\ Size_ne(it.range.start, it.range.end)) =>
        it.front =
            IF PointsAway(it.range, it.step)
            THEN IF Size_eq(it.step, Size_ZERO) THEN <<it.range.start>> ELSE <<>>
            ELSE IF it.range.inclusive
            THEN TermsNotBeyondUpTo(it.range, it.step, it.range.start)
            ELSE WithoutEnd(TermsNotBeyond(it.range, it.step, it.range.start),
                            it.range.end)

\* start..=end whose end is reached within the tolerance, and start..end
\* short of it, of three terms and two
C22_Witness ==
    /\ Collected /\ Len(it.front) >= 2
    /\ Size_ne(it.range.start, it.range.end)
    /\ \/ it.range.inclusive /\ Len(it.front) = 3
          /\ Size_eq(it.front[Len(it.front)], it.range.end)
          /\ it.front[Len(it.front)] # it.range.end
       \/ ~it.range.inclusive /\ Len(it.front) = 2
          /\ Size_eq(QAdd(it.front[2], it.step), it.range.end)


\* C23: at every point of an iteration over a bounded range, after any mix of
\* next and next_back calls, size_hint returns (k, Some(k)) with k the number
\* of elements the iterator will still yield; for an unbounded iterator it
\* returns (usize::MAX, None).
C23_ExactSizeHint ==
    /\ it.pc = "iter" =>
           \E k \in {Len(SizeIterator_collect(it.iter))} :
               SizeIterator_size_hint(it.iter) = <<k, Some(k)>>
    /\ it.pc = "infinite" =>
           SizeIteratorInfinite_size_hint(it.iter) = <<"usize::MAX", None>>


\* start + i * step
Term(i) == QAdd(it.range.start, QMul(it.step, I(i)))

\* C24: for any interleaving of next and next_back on a bounded iterator of
\* length n, next yields start + i * step for i = 0, 1, ..., next_back yields
\* start + j * step for j = n - 1, n - 2, ..., no index is yielded twice,
\* None is returned only when n elements were yielded in all, and after a
\* None both next and next_back return None on every later call.
C24_EndsMeetOnce ==
    it.pc = "iter" =>
        /\ \A i \in 1..Len(it.front) : it.front[i] = Term(i - 1)
        /\ \A j \in 1..Len(it.back) : it.back[j] = Term(it.iter.len - j)
        /\ Len(it.front) + Len(it.back) <= it.iter.len
        /\ it.nones > 0 => Len(it.front) + Len(it.back) = it.iter.len
        /\ ~it.late

\* both ends were used, they met, and None was returned MaxNone times
C24_Witness ==
    /\ it.pc = "iter" /\ it.nones = MaxNone
    /\ Len(it.front) >= 2 /\ Len(it.back) >= 2
    /\ Len(it.front) + Len(it.back) = it.iter.len


\* the sum of the lengths of the first j producers
RECURSIVE LenBefore(_, _)
LenBefore(producers, j) ==
    IF j = 0 THEN 0 ELSE LenBefore(producers, j - 1) + producers[j].len

\* C25: par_iterate(range).step(s) produces, in index order, the sequence
\* iterate(range).step(s) produces, however the producer is split: after any
\* split_at(k) with 0 <= k <= len the parts hold, in order, all len elements,
\* each part starting at start + (the number of elements before it) * step.
C25_ParallelAsSequential ==
    /\ it.pc = "par" =>
           /\ LenBefore(it.producers, Len(it.producers))
                  = SizeIteratorBuilder_step(it.range, it.step).len
           /\ \A j \in 1..Len(it.producers) :
                  /\ it.producers[j].start = Term(LenBefore(it.producers, j - 1))
                  /\ it.producers[j].step = it.step
    /\ it.pc = "collected" =>
           it.out = SizeIterator_collect(SizeIteratorBuilder_step(it.range, it.step))

\* a sequence of four elements or more collected from three parts that hold
\* elements
C25_Witness ==
    /\ it.pc = "collected" /\ Len(it.out) >= 4
    /\ Len(it.producers) = 3
    /\ \A j \in 1..3 : it.producers[j].len > 0


\* C29: when start equals end within the tolerance, start..=end yields the
\* one element start and start..end yields nothing, for every non-zero step
\* of either sign.
C29_EmptyRange ==
    (Collected /\ Size_eq(it.range.start, it.range.end)) =>
        it.front = IF it.range.inclusive THEN <<it.range.start>> ELSE <<>>


\* the cells of the allocation (counted from 0) that a slice refers to
SliceCells(sl) == {c \in 0..(sl.start + sl.len - 1) : c >= sl.start}

\* the eight slices have the length of the octant, are pairwise disjoint, lie
\* within the capacity and cover the vector
SlicesPartition ==
    /\ Len(rep.slices) = COUNT + 1
    /\ \A i \in 1..Len(rep.slices) : rep.slices[i].len = Len(rep.octant)
    /\ \A i, k \in 1..Len(rep.slices) :
           i # k => SliceCells(rep.slices[i]) \cap SliceCells(rep.slices[k]) = {}
    /\ \A i \in 1..Len(rep.slices) :
           rep.slices[i].start + rep.slices[i].len <= Vec_capacity(rep.vec)
    /\ UNION {SliceCells(rep.slices[i]) : i \in 1..Len(rep.slices)}
           = 0..(rep.vec.len - 1)

\* no cell is touched by two items; once all items have run, every cell of the
\* vector was touched by one item and no cell beyond it by any
OneTaskPerSlot ==
    /\ \A c \in 1..Vec_capacity(rep.vec) : Cardinality(rep.touched[c]) <= 1
    /\ rep.pending = {} =>
           \A c \in 1..Vec_capacity(rep.vec) :
               Cardinality(rep.touched[c]) = IF c <= rep.vec.len THEN 1 ELSE 0

\* the mesh returned is the one the items give when run in index order
SameMesh ==
    rep.pc = "done" => rep.facets = Sphere_replicate(rep.octant, rep.location)

\* C26: in the replication step of the sphere the facet vector is split into 8
\* slices of equal length, pairwise disjoint, within the capacity and covering
\* the vector; each (octant, facet) slot is touched by exactly one item of the
\* parallel for_each, and the mesh is the same under every order of the items
C26_DisjointSlots ==
    rep.pc \in {"for_each", "done"} =>
        SlicesPartition /\ OneTaskPerSlot /\ SameMesh

\* every item but the first has run, on an octant of two facets away from the
\* origin: the items did not run in index order
C26_Witness ==
    /\ rep.pc = "for_each" /\ rep.pending = {<<0, 0>>}
    /\ Len(rep.octant) = 2 /\ rep.location.point # Point_ORIGIN


\* the reference the i-th open env scope holds still points into the
\* allocation that stores the entries of the thread's ENV_MAP
ReferenceValid(b, i) == b.stack[i].alloc = b.map["main"].alloc

\* C27: while an env scope on e is open, the first use of other environments
\* inside it, each inserting an entry into the thread's ENV_MAP, leaves the
\* reference env holds to the slot of e valid, and e reads the pushed value
\* inside the scope (its prior value after it, by the write through that
\* reference).  Stated for the runs in which no action panics.
C27_ReferenceStaysValid ==
    ~be.panicked =>
        \A i \in 1..Len(be.stack) :
            /\ ReferenceValid(be, i)
            /\ BuildEnv_deref(be, "main", be.stack[i].env)
                   = ScopedValue(be, be.stack[i].env)


\* C28: distinct BuildEnv instances never share a storage slot: whatever
\* threads they are created and read on, two different environments have
\* different ids, and the typed read (downcast) of an environment never fails
C28_DistinctIds ==
    /\ \A e1, e2 \in 1..Len(be.envs) : e1 # e2 => be.envs[e1].id # be.envs[e2].id
    /\ ~be.unwrap_failed


\* the three vertexes of facet f are on one line: the normal is the zero vector
Collinear(f) == \A k \in 1..3 : FacetCross(f)[k][1] = 0

\* Facet::normal_vector of a facet with collinear vertexes hits the
\* zero-vector failure of to_unit_vector
ZeroVectorFailure(f) == Collinear(f) /\ Facet_normal_vector(f).panic

\* C30: every facet of a cylinder or cone mesh of positive radius, positive
\* height and any positive step angle, the steps with a ring of one or two
\* points included, has three non-collinear vertexes, so Facet::normal_vector
\* (and write_stl with it) never hits the zero-vector failure
C30_NoDegenerateFacet ==
    (ring.done /\ ring.op \in {"cylinder", "cone"}) =>
        \A i \in 1..Len(ring.facets) :
            /\ ~Collinear(ring.facets[i])
            /\ ~ZeroVectorFailure(ring.facets[i])

=============================================================================
